---- MODULE Spec2Model ----
(***************************************************************************)
(* A model of the recurrences package: the parser (parser.py), the term    *)
(* model (types.py), the formatter (formatter.py, utils.py) and the        *)
(* single-variable solver (solver.py).                                     *)
(*                                                                         *)
(* Texts are sequences of characters; a character is a one-element string  *)
(* ("T", "(", "1", ...).  "alpha" stands for a non-ASCII Unicode letter     *)
(* and "\n" for a line break.                                              *)
(*                                                                         *)
(* A float is modelled as an exact decimal with 13 fractional digits:      *)
(* <<i, m, u, h>> stands for h * 1e9 + i + m * 1e-6 + u * 1e-13 with       *)
(* 0 <= m < 1e6, 0 <= u < 1e7, |i| < 1e9 and i of the sign of h (h * 1e9   *)
(* + i is the floor of the number), so that the 1e-12 thresholds of the    *)
(* code are the number <<0, 0, 10, 0>> and every number written in a text  *)
(* of the model is represented exactly.                                    *)
(***************************************************************************)
EXTENDS Integers, Sequences, FiniteSets, TLC

----------------------------------------------------------------------------
(* Characters and the character classes of the regular expressions.        *)

\* \p{L}: the letters of the model's alphabet.
Letters == {"T", "S", "n", "m", "x", "alpha"}

\* \d and \p{N}: the decimal digits.
DigitChars == <<"0", "1", "2", "3", "4", "5", "6", "7", "8", "9">>

Digits == {DigitChars[i] : i \in 1..10}

\* [\p{L}\p{N}_{}]: what may follow the first letter of an identifier.
IdentChars == Letters \cup Digits \cup {"_", "{", "}"}

\* \s: what re.sub(r"\s+", "", text) removes.
Whitespace == {" ", "\n"}

DigitVal(c) == (CHOOSE i \in 1..10 : DigitChars[i] = c) - 1

----------------------------------------------------------------------------
(* Sequence helpers standing for Python's str operations.                  *)

Max(a, b) == IF a >= b THEN a ELSE b

Front(s) == SubSeq(s, 1, Len(s) - 1)

Drop(s, k) == SubSeq(s, k + 1, Len(s))

Contains(s, c) == \E i \in 1..Len(s) : s[i] = c

\* s.find(c) + 1 for a character that occurs in s.
FirstIndex(s, c) == CHOOSE i \in 1..Len(s) : s[i] = c /\ \A j \in 1..(i - 1) : s[j] # c

\* s.startswith(p)
StartsWith(s, p) == Len(p) <= Len(s) /\ SubSeq(s, 1, Len(p)) = p

\* s.split(sep) for a one-character separator: always at least one part.
RECURSIVE Split(_, _)
Split(s, sep) ==
    IF ~Contains(s, sep) THEN <<s>>
    ELSE LET i == FirstIndex(s, sep)
         IN  <<SubSeq(s, 1, i - 1)>> \o Split(Drop(s, i), sep)

\* [a for a in parts if a]
NonEmptyParts(parts) == SelectSeq(parts, LAMBDA a : a # <<>>)

\* sep.join(parts)
RECURSIVE Join(_, _)
Join(parts, sep) ==
    IF parts = <<>> THEN <<>>
    ELSE IF Len(parts) = 1 THEN parts[1]
    ELSE parts[1] \o sep \o Join(Tail(parts), sep)

\* s.replace(old, new): every non-overlapping occurrence, left to right.
RECURSIVE Replace(_, _, _)
Replace(s, old, new) ==
    IF s = <<>> THEN <<>>
    ELSE IF StartsWith(s, old) THEN new \o Replace(Drop(s, Len(old)), old, new)
    ELSE <<s[1]>> \o Replace(Tail(s), old, new)

----------------------------------------------------------------------------
(* Numbers: <<i, m, u, h>> is h * 1e9 + i + m * 1e-6 + u * 1e-13.          *)

MBase == 10 ^ 6

UBase == 10 ^ 7

HBase == 10 ^ 9

\* The limbs <<i, h>> of the integer h * HBase + i, for |i| < 2 * HBase:
\* |i| < HBase and i is of the sign of h.
NormInt(i0, h0) ==
    \* i0 and h0 are computed once
    LET ih == CHOOSE p \in { <<i0, h0>> } : TRUE
        i  == ih[1]
        h  == ih[2]
        c  == IF i >= HBase THEN 1 ELSE IF i <= -HBase THEN -1 ELSE 0
        i1 == i - c * HBase
        h1 == h + c
    IN  IF h1 > 0 /\ i1 < 0 THEN <<i1 + HBase, h1 - 1>>
        ELSE IF h1 < 0 /\ i1 > 0 THEN <<i1 - HBase, h1 + 1>>
        ELSE <<i1, h1>>

\* The one element of a set.  The operators on numbers take their arguments,
\* and the recursions the result of the recursive call, out of a set: TLC
\* then computes each of them once, whatever the nesting.
Only(S) == CHOOSE z \in S : TRUE

Zero == <<0, 0, 0, 0>>

One == <<1, 0, 0, 0>>

NumOfInt(k) == <<k, 0, 0, 0>>

NumAdd(x, y) ==
    Only({ LET u  == a[3] + b[3]
               cu == IF u >= UBase THEN 1 ELSE 0
               m  == a[2] + b[2] + cu
               cm == IF m >= MBase THEN 1 ELSE 0
           IN  Only({ <<ih[1], m - cm * MBase, u - cu * UBase, ih[2]>> :
                        ih \in { NormInt(a[1] + b[1] + cm, a[4] + b[4]) } }) :
           a \in { x }, b \in { y } })

NumNeg(x) ==
    Only({ LET borrow == IF a[2] = 0 /\ a[3] = 0 THEN 0 ELSE 1
               ih     == NormInt(-a[1] - borrow, -a[4])
           IN  IF a[2] = 0 /\ a[3] = 0 THEN <<ih[1], 0, 0, ih[2]>>
               ELSE IF a[3] = 0 THEN <<ih[1], MBase - a[2], 0, ih[2]>>
               ELSE <<ih[1], MBase - 1 - a[2], UBase - a[3], ih[2]>> :
           a \in { x } })

NumSub(a, b) == NumAdd(a, NumNeg(b))

NumLt(x, y) ==
    \E a \in { x }, b \in { y } :
        \/ a[4] < b[4]
        \/ a[4] = b[4] /\ a[1] < b[1]
        \/ a[4] = b[4] /\ a[1] = b[1] /\ a[2] < b[2]
        \/ a[4] = b[4] /\ a[1] = b[1] /\ a[2] = b[2] /\ a[3] < b[3]

NumLe(x, y) == \E a \in { x }, b \in { y } : a = b \/ NumLt(a, b)

NumAbs(x) == Only({ IF NumLt(a, Zero) THEN NumNeg(a) ELSE a : a \in { x } })

\* x == int(x)
IsIntegral(a) == a[2] = 0 /\ a[3] = 0

\* int(x) of an integral x below 1e9 in magnitude
IntOf(a) == a[1]

----------------------------------------------------------------------------
(* Numeric literals: NUMBER_PATTERN and float().                           *)

AllDigits(s) == Len(s) >= 1 /\ \A i \in 1..Len(s) : s[i] \in Digits

\* \d+(?:\.\d+)?
IsUnsigned(s) ==
    \/ AllDigits(s)
    \/ /\ Contains(s, ".")
       /\ AllDigits(SubSeq(s, 1, FirstIndex(s, ".") - 1))
       /\ AllDigits(Drop(s, FirstIndex(s, ".")))

\* NUMBER_PATTERN.match(s): ^-?\d+(?:\.\d+)?$ (s holds no line break here:
\* all whitespace was removed before the pattern is used).
IsNumber(s) ==
    \/ IsUnsigned(s)
    \/ Len(s) >= 2 /\ s[1] = "-" /\ IsUnsigned(Tail(s))

RECURSIVE NatOf(_)
NatOf(ds) == IF ds = <<>> THEN 0 ELSE NatOf(Front(ds)) * 10 + DigitVal(ds[Len(ds)])

\* The first 13 fractional digits, padded with zeros.
FracPad(ds) == SubSeq(ds \o [i \in 1..13 |-> "0"], 1, 13)

\* float(s) of an unsigned literal.
FloatUnsigned(s) ==
    LET ip == IF Contains(s, ".") THEN SubSeq(s, 1, FirstIndex(s, ".") - 1) ELSE s
        fr == FracPad(IF Contains(s, ".") THEN Drop(s, FirstIndex(s, ".")) ELSE <<>>)
        n  == Len(ip)
    IN  <<NatOf(SubSeq(ip, Max(1, n - 8), n)), NatOf(SubSeq(fr, 1, 6)),
          NatOf(SubSeq(fr, 7, 13)), NatOf(SubSeq(ip, 1, n - 9))>>

\* float(s) of a literal with an optional sign.
Float(s) ==
    IF s[1] = "-" THEN NumNeg(FloatUnsigned(Tail(s)))
    ELSE IF s[1] = "+" THEN FloatUnsigned(Tail(s))
    ELSE FloatUnsigned(s)

----------------------------------------------------------------------------
(* types.py: the term model.  A constructor that raises ValueError is a    *)
(* term, or a result, of kind "ValueError".                                *)

Term(kind, coef, func, vars, shifts) ==
    [kind |-> kind, coef |-> coef, func |-> func, vars |-> vars, shifts |-> shifts]

\* FunctionTerm without its __post_init__: the variant C24 must tell apart.
FunctionTermUnchecked(coef, func, vars, shifts) == Term("F", coef, func, vars, shifts)

\* FunctionTerm(coef, func, vars, shifts) with its __post_init__
FunctionTerm(coef, func, vars, shifts) ==
    IF Len(vars) # Len(shifts) THEN Term("ValueError", coef, func, vars, shifts)
    ELSE Term("F", coef, func, vars, shifts)

ConstantTerm(coef) == Term("C", coef, <<>>, <<>>, <<>>)

\* isinstance(t, FunctionTerm)
IsFunctionTerm(t) == t.kind = "F"

\* isinstance(t, ConstantTerm)
IsConstantTerm(t) == t.kind = "C"

NoTerm == Term("none", Zero, <<>>, <<>>, <<>>)

\* An exception: its type (exc), the rule its message names (err) and the
\* part of the input the message quotes (what).
Raise(exc, rule, what) ==
    [ok |-> FALSE, exc |-> exc, err |-> rule, what |-> what, lhs |-> NoTerm, rhs |-> <<>>]

ParseError(rule, what) == Raise("ParseError", rule, what)

\* Recurrence(lhs, rhs) with its __post_init__; an exception raised while the
\* arguments were built comes first.
Recurrence(lhs, rhs) ==
    IF lhs.kind = "ValueError" \/ \E i \in 1..Len(rhs) : rhs[i].kind = "ValueError"
    THEN Raise("ValueError", "vars and shifts must have same length", <<>>)
    ELSE IF lhs.coef # One THEN Raise("ValueError", "lhs.coef must be 1", <<>>)
    ELSE IF \E i \in 1..Len(lhs.shifts) : lhs.shifts[i] # Zero
    THEN Raise("ValueError", "lhs.shifts must all be 0", <<>>)
    ELSE [ok |-> TRUE, exc |-> "", err |-> "", what |-> <<>>, lhs |-> lhs, rhs |-> rhs]

\* No call made yet.
NoResult == Raise("none", "", <<>>)

----------------------------------------------------------------------------
(* parser.py                                                               *)

IdentifierBody(s) ==
    /\ Len(s) >= 1
    /\ s[1] \in Letters
    /\ \A i \in 2..Len(s) : s[i] \in IdentChars

\* IDENTIFIER_PATTERN.match(name): ^[\p{L}][\p{L}\p{N}_{}]*$.  Without the
\* MULTILINE flag "$" matches at the end of the string and also just before
\* a line break that ends the string.
is_valid_identifier(name) ==
    \/ IdentifierBody(name)
    \/ Len(name) >= 2 /\ name[Len(name)] = "\n" /\ IdentifierBody(Front(name))

\* re.sub(r"\s+", "", text)
StripWhitespace(text) == SelectSeq(text, LAMBDA c : c \notin Whitespace)

\* name "(" rest ")" with no ")" inside rest: the shape both
\* ^([^(]+)\(([^)]*)\)$ and the tail of the term pattern ask for.
\* CallHead is group 1 (what precedes the first "("), CallArgs group 2.
CallShape(s) ==
    /\ Contains(s, "(")
    /\ s[Len(s)] = ")"
    /\ ~Contains(SubSeq(s, FirstIndex(s, "(") + 1, Len(s) - 1), ")")

CallHead(s) == SubSeq(s, 1, FirstIndex(s, "(") - 1)

CallArgs(s) == SubSeq(s, FirstIndex(s, "(") + 1, Len(s) - 1)

\* re.match(r"^([^(]+)\(([^)]*)\)$", lhs_str)
LhsMatch(lhs_str) == CallShape(lhs_str) /\ CallHead(lhs_str) # <<>>

RECURSIVE SplitRhsLoop(_, _, _, _, _)
SplitRhsLoop(s, i, depth, buf, out) ==
    IF i > Len(s) THEN (IF buf # <<>> THEN Append(out, buf) ELSE out)
    ELSE IF s[i] = "(" THEN SplitRhsLoop(s, i + 1, depth + 1, Append(buf, s[i]), out)
    ELSE IF s[i] = ")" THEN SplitRhsLoop(s, i + 1, Max(0, depth - 1), Append(buf, s[i]), out)
    ELSE IF s[i] = "+" /\ depth = 0
         THEN SplitRhsLoop(s, i + 1, depth, <<>>, IF buf # <<>> THEN Append(out, buf) ELSE out)
    ELSE SplitRhsLoop(s, i + 1, depth, Append(buf, s[i]), out)

\* A splitter that ignores the parenthesis depth: every '+' ends a summand.
RECURSIVE SplitFlatLoop(_, _, _, _)
SplitFlatLoop(s, i, buf, out) ==
    IF i > Len(s) THEN (IF buf # <<>> THEN Append(out, buf) ELSE out)
    ELSE IF s[i] = "+"
         THEN SplitFlatLoop(s, i + 1, <<>>, IF buf # <<>> THEN Append(out, buf) ELSE out)
    ELSE SplitFlatLoop(s, i + 1, Append(buf, s[i]), out)

SplitFlat(s) == SplitFlatLoop(s, 1, <<>>, <<>>)

\* def _split_rhs(s): buf, depth, out start empty; the for loop; the final flush
_split_rhs(s) == SplitRhsLoop(s, 1, 0, <<>>, <<>>)

\* What _parse_term gives: a Term, or the ParseError it raises.
TermOk(term) ==
    [ok |-> term.kind # "ValueError",
     exc |-> IF term.kind = "ValueError" THEN "ValueError" ELSE "",
     err |-> "", what |-> <<>>, term |-> term]

TermError(rule, what) ==
    [ok |-> FALSE, exc |-> "ParseError", err |-> rule, what |-> what, term |-> NoTerm]

\* shift_pattern.match(arg): ^{var}([+-]\d+(?:\.\d+)?)?$
ShiftMatch(arg, var) ==
    /\ StartsWith(arg, var)
    /\ LET rest == Drop(arg, Len(var))
       IN  \/ rest = <<>>
           \/ /\ rest[1] \in {"+", "-"}
              /\ IsUnsigned(Tail(rest))

\* _parse_shift for an argument that matches: float(shift_str), or 0.0.
_parse_shift(arg, var) ==
    LET shift_str == Drop(arg, Len(var))
    IN  IF shift_str # <<>> THEN Float(shift_str) ELSE Zero

HasLetter(s) == \E i \in 1..Len(s) : s[i] \in Letters

FirstLetter(s) ==
    CHOOSE i \in 1..Len(s) : s[i] \in Letters /\ \A j \in 1..(i - 1) : s[j] \notin Letters

\* What precedes the identifier in a term: group 1 with its optional "*".
TermCoefPart(summand) ==
    SubSeq(CallHead(summand), 1, FirstLetter(CallHead(summand)) - 1)

\* group 1 of term_pattern: the coefficient literal, or nothing.
TermCoefStr(summand) ==
    LET c == TermCoefPart(summand)
    IN  IF c # <<>> /\ c[Len(c)] = "*" THEN Front(c) ELSE c

\* group 2 of term_pattern: the function name.
TermFnName(summand) ==
    Drop(CallHead(summand), FirstLetter(CallHead(summand)) - 1)

\* term_pattern.match(summand):
\* ^(?:(-?\d+(?:\.\d+)?)\*?)?([\p{L}][\p{L}\p{N}_{}]*)\(([^)]*)\)$
\* The identifier starts at the first letter, since no character of the
\* coefficient part is a letter, and ends at the first "(".
TermMatch(summand) ==
    /\ CallShape(summand)
    /\ HasLetter(CallHead(summand))
    /\ IdentifierBody(TermFnName(summand))
    /\ \/ TermCoefPart(summand) = <<>>
       \/ IsNumber(TermCoefStr(summand))

_parse_term(summand, func, vars_list) ==
    IF IsNumber(summand) THEN TermOk(ConstantTerm(Float(summand)))
    ELSE IF ~TermMatch(summand) THEN TermError("Invalid term", summand)
    ELSE
      LET coef_str == TermCoefStr(summand)
          fn_name  == TermFnName(summand)
          args_raw == Split(CallArgs(summand), ",")
          coef     == IF coef_str # <<>> THEN Float(coef_str) ELSE One
      IN  IF ~is_valid_identifier(fn_name) THEN TermError("Invalid function name", fn_name)
          ELSE IF fn_name # func THEN TermError("different function name", fn_name)
          ELSE IF Len(args_raw) # Len(vars_list) THEN TermError("wrong number of args", summand)
          ELSE IF \E i \in 1..Len(args_raw) : ~ShiftMatch(args_raw[i], vars_list[i])
          THEN LET i == CHOOSE k \in 1..Len(args_raw) :
                          /\ ~ShiftMatch(args_raw[k], vars_list[k])
                          /\ \A j \in 1..(k - 1) : ShiftMatch(args_raw[j], vars_list[j])
               IN  TermError("Invalid argument", args_raw[i])
          ELSE TermOk(FunctionTerm(coef, func, vars_list,
                        [i \in 1..Len(args_raw) |-> _parse_shift(args_raw[i], vars_list[i])]))

\* No threshold at all: the variant C23 must tell apart.
ThresholdNone == Zero

\* 1e-12
Threshold == <<0, 0, 10, 0>>

\* function_map[key] = function_map.get(key, 0.0) + coef; a dict keeps its
\* keys in the order of their first insertion.
MapAdd(function_map, key, coef) ==
    IF \E k \in 1..Len(function_map) : function_map[k].key = key
    THEN [k \in 1..Len(function_map) |->
            IF function_map[k].key = key
            THEN [key |-> key, coef |-> NumAdd(function_map[k].coef, coef)]
            ELSE function_map[k]]
    ELSE Append(function_map, [key |-> key, coef |-> coef])

RECURSIVE ConstantSum(_)
ConstantSum(raw_terms) ==
    IF raw_terms = <<>> THEN Zero
    ELSE LET t == raw_terms[Len(raw_terms)]
         IN  IF IsConstantTerm(t) THEN NumAdd(ConstantSum(Front(raw_terms)), t.coef)
             ELSE ConstantSum(Front(raw_terms))

RECURSIVE FunctionMap(_)
FunctionMap(raw_terms) ==
    IF raw_terms = <<>> THEN <<>>
    ELSE LET t == raw_terms[Len(raw_terms)]
         IN  IF IsConstantTerm(t) THEN FunctionMap(Front(raw_terms))
             ELSE MapAdd(FunctionMap(Front(raw_terms)), t.shifts, t.coef)

\* if abs(constant_sum) > 1e-12
KeepConstant(constant_sum) == NumLt(Threshold, NumAbs(constant_sum))

\* if abs(coef) < 1e-12: continue
KeepFunction(coef) == ~NumLt(NumAbs(coef), Threshold)

_combine_terms(raw_terms, vars_list, func) ==
    LET constant_sum == ConstantSum(raw_terms)
        kept == SelectSeq(FunctionMap(raw_terms), LAMBDA e : KeepFunction(e.coef))
    IN  (IF KeepConstant(constant_sum) THEN <<ConstantTerm(constant_sum)>> ELSE <<>>)
        \o [k \in 1..Len(kept) |-> FunctionTerm(kept[k].coef, func, vars_list, kept[k].key)]

\* The loop over raw_args: the first argument that is no identifier or that
\* repeats an earlier one, 0 if there is none.
\* BadLhsArg without "if arg in vars_list": the variant C3 must tell apart.
BadLhsArgNoDuplicateCheck(raw_args, i) == ~is_valid_identifier(raw_args[i])

BadLhsArg(raw_args, i) ==
    \/ ~is_valid_identifier(raw_args[i])
    \/ \E j \in 1..(i - 1) : raw_args[j] = raw_args[i]

\* FirstBadLhsArg checking all names first and duplicates after: the variant
\* C4 must tell apart.
FirstBadLhsArgByRule(raw_args) ==
    LET Invalid(i)   == ~is_valid_identifier(raw_args[i])
        Duplicate(i) == \E j \in 1..(i - 1) : raw_args[j] = raw_args[i]
        idx          == 1..Len(raw_args)
    IN  IF \E i \in idx : Invalid(i)
        THEN CHOOSE i \in idx : Invalid(i) /\ \A j \in 1..(i - 1) : ~Invalid(j)
        ELSE IF \E i \in idx : Duplicate(i)
        THEN CHOOSE i \in idx : Duplicate(i) /\ \A j \in 1..(i - 1) : ~Duplicate(j)
        ELSE 0

FirstBadLhsArg(raw_args) ==
    IF \E i \in 1..Len(raw_args) : BadLhsArg(raw_args, i)
    THEN CHOOSE i \in 1..Len(raw_args) :
            BadLhsArg(raw_args, i) /\ \A j \in 1..(i - 1) : ~BadLhsArg(raw_args, j)
    ELSE 0

\* The right-hand side of parse_recurrence, from "Parse RHS" on.
ParseRhs(lhs, func, vars_list, rhs_str) ==
    LET summands == NonEmptyParts(_split_rhs(rhs_str))
        parsed   == [i \in 1..Len(summands) |-> _parse_term(summands[i], func, vars_list)]
    IN  IF summands = <<>> THEN ParseError("Empty right-hand side", <<>>)
        ELSE IF Len(summands) = 1 /\ IsNumber(summands[1])
        THEN Recurrence(lhs, _combine_terms(<<ConstantTerm(Float(summands[1]))>>, vars_list, func))
        ELSE IF \E i \in 1..Len(parsed) : ~parsed[i].ok
        THEN LET i == CHOOSE k \in 1..Len(parsed) :
                          ~parsed[k].ok /\ \A j \in 1..(k - 1) : parsed[j].ok
             IN  Raise(parsed[i].exc, parsed[i].err, parsed[i].what)
        ELSE Recurrence(lhs, _combine_terms([i \in 1..Len(parsed) |-> parsed[i].term],
                                            vars_list, func))

parse_recurrence(text) ==
    LET cleaned == StripWhitespace(text)
        parts   == Split(cleaned, "=")
    IN  IF cleaned = <<>> THEN ParseError("Empty input", <<>>)
        ELSE IF Len(parts) # 2 THEN ParseError("Expected exactly one '='", text)
        ELSE
          LET lhs_str == parts[1]
              rhs_str == parts[2]
          IN  IF lhs_str = <<>> THEN ParseError("Empty left-hand side", <<>>)
              ELSE IF rhs_str = <<>> THEN ParseError("Empty right-hand side", <<>>)
              ELSE IF ~LhsMatch(lhs_str) THEN ParseError("Invalid left-hand side", lhs_str)
              ELSE
                LET func     == CallHead(lhs_str)
                    raw_args == NonEmptyParts(Split(CallArgs(lhs_str), ","))
                    bad      == FirstBadLhsArg(raw_args)
                IN  IF ~is_valid_identifier(func)
                    THEN ParseError("Invalid function name", func)
                    ELSE IF raw_args = <<>> THEN ParseError("No arguments", lhs_str)
                    ELSE IF bad # 0 /\ ~is_valid_identifier(raw_args[bad])
                    THEN ParseError("Invalid variable name", raw_args[bad])
                    ELSE IF bad # 0
                    THEN ParseError("Duplicate variable name", raw_args[bad])
                    ELSE ParseRhs(FunctionTerm(One, func, raw_args,
                                               [i \in 1..Len(raw_args) |-> Zero]),
                                  func, raw_args, rhs_str)

----------------------------------------------------------------------------
(* utils.py and formatter.py                                               *)

\* str(n) for n >= 0
RECURSIVE NatToStr(_)
NatToStr(n) ==
    IF n < 10 THEN <<DigitChars[n + 1]>>
    ELSE NatToStr(n \div 10) \o <<DigitChars[(n % 10) + 1]>>

\* str(k)
IntToStr(k) == IF k < 0 THEN <<"-">> \o NatToStr(-k) ELSE NatToStr(k)

\* str(h * 10**9 + i) for h >= 0 and 0 <= i < 10**9
BigNatToStr(i, h) ==
    IF h = 0 THEN NatToStr(i)
    ELSE NatToStr(h) \o [j \in 1..(9 - Len(NatToStr(i))) |-> "0"] \o NatToStr(i)

\* str(int(x)) of an integral x
NumIntToStr(x) ==
    IF NumLt(x, Zero) THEN <<"-">> \o BigNatToStr(-x[1], -x[4]) ELSE BigNatToStr(x[1], x[4])

\* s.rstrip(c)
RECURSIVE RStrip(_, _)
RStrip(s, c) == IF s # <<>> /\ s[Len(s)] = c THEN RStrip(Front(s), c) ELSE s

\* The exact value of x * 10**5 is an integer.
ExactAtFiveDigits(x) == x[2] % 10 = 0 /\ x[3] = 0

\* x is a binary fraction n / 2^k, so the double holds it exactly and
\* x * factor is computed without a rounding error (10^5 = 2^5 * 5^5).
IsBinaryFraction(x) == ExactAtFiveDigits(x) /\ (x[2] \div 10) % (5 ^ 5) = 0

\* The rounding errors math.ceil(x * factor) may see: the double nearest to a
\* decimal that is no binary fraction lies just above or just below it, and
\* when x * factor should be an integer n the product is n or a value just
\* above n, whose ceiling is n + 1.
CeilSlack(x) == IF ExactAtFiveDigits(x) /\ ~IsBinaryFraction(x) THEN {0, 1} ELSE {0}

\* math.ceil(x * factor) / factor for factor == 10**5: <<i, f, h>> is
\* h * 1e9 + i + f * 1e-5.
CeilAtFiveDigits(x, slack) ==
    LET f  == x[2] \div 10
              + (IF ExactAtFiveDigits(x) THEN 0 ELSE 1)
              + (IF slack \in CeilSlack(x) THEN slack ELSE 0)
        up == NormInt(x[1] + 1, x[4])
    IN  IF f >= 10 ^ 5 THEN <<up[1], f - 10 ^ 5, up[2]>> ELSE <<x[1], f, x[4]>>

\* f"{rounded:.5f}" for rounded == r[3] * 1e9 + r[1] + r[2] * 1e-5
FixedFive(r) ==
    LET neg == r[3] < 0 \/ (r[3] = 0 /\ r[1] < 0)
        ip  == IF ~neg THEN <<r[1], r[3]>>
               ELSE IF r[2] = 0 THEN NormInt(-r[1], -r[3])
               ELSE NormInt(-r[1] - 1, -r[3])
        fr  == NatToStr(IF neg /\ r[2] # 0 THEN 10 ^ 5 - r[2] ELSE r[2])
    IN  (IF neg THEN <<"-">> ELSE <<>>)
        \o BigNatToStr(ip[1], ip[2]) \o <<".">>
        \o [i \in 1..(5 - Len(fr)) |-> "0"] \o fr

\* format_number(x) with digits == 5, for a finite x.
\* 5e-7 in units of 1e-13
HalfMicro == 5 * 10 ^ 6

\* RoundSix cutting the digits after the sixth: the variant C17 must tell
\* apart.
RoundSixDown(val, tie) == <<val[1], val[2], 0, val[4]>>

\* round(val, 6).  The float val is not a decimal ending in 5 at the seventh
\* place, it lies on one side of it: at such a decimal tie tells the side.
RoundSix(val, tie) ==
    LET down == <<val[1], val[2], 0, val[4]>>
    IN  IF val[3] > HalfMicro \/ (val[3] = HalfMicro /\ tie = 1)
        THEN NumAdd(down, <<0, 1, 0, 0>>)
        ELSE down

\* snap_int leaving val as it is: the variant C20 must tell apart.
SnapNever(val, tie) == val

\* utils.py: snap_int(val), for a finite val
snap_int(val, tie) ==
    LET rounded == RoundSix(val, tie)
    IN  IF IsIntegral(rounded) THEN <<rounded[1], 0, 0, rounded[4]>> ELSE rounded

format_number(x, slack) == RStrip(RStrip(FixedFive(CeilAtFiveDigits(x, slack)), "0"), ".")

_format_constant(coef, slack) ==
    IF IsIntegral(coef) THEN NumIntToStr(coef) ELSE format_number(coef, slack)

\* An argument rendered without its shift: the variant C18 must tell apart.
FormatArgBare(var, shift, slack) == var

FormatArg(var, shift, slack) ==
    IF shift = Zero THEN var
    ELSE IF NumLt(shift, Zero) THEN var \o <<"-">> \o _format_constant(NumNeg(shift), slack)
    ELSE var \o <<"+">> \o _format_constant(shift, slack)

_format_function_term(term, slack) ==
    LET coef_str == IF term.coef = One THEN <<>>
                    ELSE IF term.coef = NumNeg(One) THEN <<"-">>
                    ELSE _format_constant(term.coef, slack) \o <<"*">>
        n    == IF Len(term.vars) <= Len(term.shifts) THEN Len(term.vars) ELSE Len(term.shifts)
        args == [i \in 1..n |-> FormatArg(term.vars[i], term.shifts[i], slack)]
    IN  coef_str \o term.func \o <<"(">> \o Join(args, <<",", " ">>) \o <<")">>

\* format_recurrence(rec); slack is the rounding error of the products
\* x * factor in the format_number calls it makes.
format_recurrence(rec, slack) ==
    LET lhs == rec.lhs.func \o <<"(">> \o Join(rec.lhs.vars, <<",", " ">>) \o <<")">>
        rhs_parts == [i \in 1..Len(rec.rhs) |->
                        IF IsConstantTerm(rec.rhs[i])
                        THEN _format_constant(rec.rhs[i].coef, slack)
                        ELSE _format_function_term(rec.rhs[i], slack)]
    IN  IF rec.rhs = <<>> THEN lhs \o <<" ", "=", " ", "0">>
        ELSE lhs \o <<" ", "=", " ">>
             \o Replace(Join(rhs_parts, <<" ", "+", " ">>), <<" ", "+", " ", "-">>, <<" ", "-", " ">>)

\* format_asymptotics(rec, root): the text, or the ValueError it raises.
\* A root is [inf |-> is it math.inf, val |-> its value otherwise].
format_asymptotics(r, root, slack) ==
    IF Len(r.lhs.vars) # 1
    THEN [exc |-> "ValueError", out |-> <<>>]
    ELSE IF root.inf THEN [exc |-> "", out |-> <<"O", "(", "infinity", ")">>]
    ELSE IF root.val = One THEN [exc |-> "", out |-> <<"O", "(", "1", ")">>]
    ELSE [exc |-> "", out |-> <<"O", "(">> \o format_number(root.val, slack)
                              \o <<"^">> \o r.lhs.vars[1] \o <<")">>]

----------------------------------------------------------------------------
(* solver.py: solve_recurrence.                                            *)

\* PENALTY: Final[float] = 1e6
PENALTY == <<10 ^ 6, 0, 0, 0>>

\* for _ in range(50)
BracketIterations == 50

\* What solve_recurrence gives: a ValueError, a float it states itself (1.0,
\* PENALTY), or what snap_int makes of the root brentq finds for g in
\* [1, 2^k].  That root is a function of coef_arr, delta_arr and the bracket:
\* the model keeps these three and no digits of the root.
\* searched tells whether the bracket search ("Find upper bracket") ran.
SolveOutcome(kind, val, searched, k, coefs, deltas) ==
    [kind |-> kind, val |-> val, searched |-> searched,
     k |-> k, coefs |-> coefs, deltas |-> deltas]

SolveRaises == SolveOutcome("ValueError", Zero, FALSE, 0, <<>>, <<>>)

SolveValue(v) == SolveOutcome("value", v, FALSE, 0, <<>>, <<>>)

\* return PENALTY, from the bracket search
SearchFailed == SolveOutcome("value", PENALTY, TRUE, 0, <<>>, <<>>)

BrentRoot(coefs, deltas, k) == SolveOutcome("root", Zero, TRUE, k, coefs, deltas)

RECURSIVE NumSum(_)
NumSum(xs) ==
    IF xs = <<>> THEN Zero
    ELSE Only({ NumAdd(y, last) : y \in { NumSum(Front(xs)) }, last \in { xs[Len(xs)] } })

\* x * 2^n: n doublings, in two halves
RECURSIVE TimesPow2(_, _)
TimesPow2(x, n) ==
    IF n = 0 THEN x
    ELSE IF n = 1 THEN NumAdd(x, x)
    ELSE Only({ TimesPow2(y, n - (n \div 2)) : y \in { TimesPow2(x, n \div 2) } })

MaxInt(S) == CHOOSE x \in S : \A y \in S : y <= x

\* g(2^k) <= 0 for deltas that are whole numbers: with D the largest delta,
\* sum_j coef_j * 2^(-k * delta_j) <= 1 is
\* sum_j coef_j * 2^(k * (D - delta_j)) <= 2^(k * D).
GNotPositiveAt(coefs, deltas, k) ==
    LET D == MaxInt({IntOf(deltas[j]) : j \in 1..Len(deltas)})
    IN  NumLe(NumSum([j \in 1..Len(coefs) |-> TimesPow2(coefs[j], k * (D - IntOf(deltas[j])))]),
              TimesPow2(One, k * D))

\* ExceedsCap never true: the variant C13 must tell apart.
ExceedsCapNever(b) == FALSE

\* if b > 1e12: return PENALTY
ExceedsCap(b) == NumLt(<<0, 0, 0, 1000>>, b)

\* The loop "Find upper bracket": its iteration k tests b == 2^k, and it is
\* reached while k <= 50 and 2^k has not gone above 1e12.  The k of the
\* bracket found (the first with g(2^k) <= 0), or 0 when the loop returns
\* PENALTY.
SearchReach == { k \in 1..BracketIterations : k = 1 \/ ~ExceedsCap(TimesPow2(One, k)) }

\* A search that never finds its bracket: the variant C29 must tell apart.
BracketSearchNone(coefs, deltas) == 0

BracketSearch(coefs, deltas) ==
    IF \E k \in SearchReach : GNotPositiveAt(coefs, deltas, k)
    THEN CHOOSE k \in SearchReach :
            /\ GNotPositiveAt(coefs, deltas, k)
            /\ \A j \in 1..(k - 1) : ~GNotPositiveAt(coefs, deltas, j)
    ELSE 0

\* FuncTerms stopping at the first ConstantTerm: the variant C8 must tell
\* apart.
FuncTermsUpToConstant(r) ==
    LET n == Len(r.rhs)
        stop == IF \E i \in 1..n : IsConstantTerm(r.rhs[i])
                THEN CHOOSE i \in 1..n :
                        IsConstantTerm(r.rhs[i]) /\ \A j \in 1..(i - 1) : ~IsConstantTerm(r.rhs[j])
                ELSE n + 1
    IN  SubSeq(r.rhs, 1, stop - 1)

\* func_terms = [t for t in rec.rhs if isinstance(t, FunctionTerm)]
FuncTerms(r) == SelectSeq(r.rhs, IsFunctionTerm)

\* GAtOne without the "- 1.0": the variant C9 must tell apart.
GAtOneNotMinusOne(coefs) == NumSum(coefs)

\* g(1.0): every exp(-delta * 0) is 1.
GAtOne(coefs) == NumSub(NumSum(coefs), One)

\* DeltaOf without the sign change: the variant C10 must tell apart.
DeltaOfUnnegated(term) == term.shifts[1]

\* deltas.append(-term.shifts[0])
DeltaOf(term) == NumNeg(term.shifts[1])

\* UnsupportedArity letting a Recurrence without variables through: the
\* variant C7 must tell apart.
ArityAboveOne(num_vars) == num_vars > 1

\* if num_vars != 1: raise ValueError
UnsupportedArity(num_vars) == num_vars # 1

\* solve_recurrence has not returned before "Find upper bracket".
SolveGoesOn == SolveOutcome("none", Zero, FALSE, 0, <<>>, <<>>)

CoefsOf(r) == [j \in 1..Len(FuncTerms(r)) |-> FuncTerms(r)[j].coef]

\* DeltasOf with the shifts as they are: the variant C16 must tell apart.
DeltasOfShifts(r) == [j \in 1..Len(FuncTerms(r)) |-> FuncTerms(r)[j].shifts[1]]

DeltasOf(r) == [j \in 1..Len(FuncTerms(r)) |-> DeltaOf(FuncTerms(r)[j])]

\* solve_recurrence up to "Find upper bracket": its raise and its early
\* returns
SolveEarly(r) ==
    IF UnsupportedArity(Len(r.lhs.vars)) THEN SolveRaises
    ELSE IF FuncTerms(r) = <<>> THEN SolveValue(One)
    ELSE
      LET deltas == DeltasOf(r)
          g1     == GAtOne(CoefsOf(r))
      IN  IF \E j \in 1..Len(deltas) : NumLe(deltas[j], Zero) THEN SolveValue(PENALTY)
          ELSE IF NumLt(NumAbs(g1), Threshold) THEN SolveValue(One)
          ELSE IF NumLt(g1, Zero) THEN SolveValue(PENALTY)
          ELSE SolveGoesOn

solve_recurrence(r) ==
    LET early == SolveEarly(r)
        k     == BracketSearch(CoefsOf(r), DeltasOf(r))
    IN  IF early # SolveGoesOn THEN early
        ELSE IF k = 0 THEN SearchFailed
        ELSE BrentRoot(CoefsOf(r), DeltasOf(r), k)

\* The root solve_recurrence returns for an outcome of kind "root":
\* snap_int(sol.root), where brentq leaves sol.root within BrentTol of the
\* solution of g(x) == 0 in [1, 2^k] (xtol + 4 * rtol * x stays below 1e-8
\* for x <= 2^20).

\* 1e-8
BrentTol == <<0, 0, 100000, 0>>

\* The solution is known exactly: with every delta 1, g(x) is
\* sum(coefs) / x - 1.
RootKnown(o) ==
    /\ o.kind = "root"
    /\ o.k <= 20
    /\ \A j \in 1..Len(o.deltas) : o.deltas[j] = One

\* The floats solve_recurrence can return when the solution is known.
RootValues(o) ==
    { snap_int(x, tie) :
        x \in { NumSub(NumSum(o.coefs), BrentTol), NumAdd(NumSum(o.coefs), BrentTol) },
        tie \in {0, 1} }

\* BracketLow as 0: the variant C14 must tell apart.
BracketLowZero == Zero

\* bracket=(1.0, b)
BracketLow == One

PositiveCoefs(o) == \A j \in 1..Len(o.coefs) : NumLt(Zero, o.coefs[j])

\* The solution can be located on the grid of the multiples of 1 / 64:
\* positive coefficients that are multiples of 0.5, whole deltas up to 3, a
\* bracket up to [1, 8].  The sign of g is then one of whole numbers.
GridQ == 64

RootOnGrid(o) ==
    /\ PositiveCoefs(o)
    /\ o.k <= 3
    /\ \A j \in 1..Len(o.coefs) : IsIntegral(NumAdd(o.coefs[j], o.coefs[j]))
    /\ NumLe(NumSum(o.coefs), NumOfInt(8))
    /\ \A j \in 1..Len(o.deltas) :
          IsIntegral(o.deltas[j]) /\ NumLe(o.deltas[j], NumOfInt(3))

RECURSIVE IntSum(_)
IntSum(xs) == IF xs = <<>> THEN 0 ELSE IntSum(Front(xs)) + xs[Len(xs)]

\* g(p / GridQ) > 0, that is sum_j coef_j * (GridQ / p) ^ delta_j > 1, with
\* both sides times 2 * p^D for D the largest delta
GPositiveOnGrid(o, p) ==
    LET D == MaxInt({ IntOf(o.deltas[j]) : j \in 1..Len(o.deltas) })
    IN  IntSum([j \in 1..Len(o.coefs) |->
                  IntOf(NumAdd(o.coefs[j], o.coefs[j]))
                    * GridQ ^ IntOf(o.deltas[j]) * p ^ (D - IntOf(o.deltas[j]))])
          > 2 * p ^ D

\* The p with g(p / GridQ) > 0 >= g((p + 1) / GridQ) between lo and hi,
\* where g(lo / GridQ) > 0 >= g(hi / GridQ): g decreases, so the solution
\* lies between p / GridQ and (p + 1) / GridQ.
RECURSIVE RootCell(_, _, _)
RootCell(o, lo, hi) ==
    IF hi - lo <= 1 THEN lo
    ELSE IF GPositiveOnGrid(o, (lo + hi) \div 2) THEN RootCell(o, (lo + hi) \div 2, hi)
    ELSE RootCell(o, lo, (lo + hi) \div 2)

\* p / 64, a decimal of six places
GridPoint(p) == <<p \div GridQ, (p % GridQ) * 15625, 0, 0>>

\* Bounds of the root returned: the known values; the grid cell of the
\* solution (a bound with six decimal places at most, which snap_int leaves
\* on its side of the root); or the bracket [1, 2^k], where g decreases for
\* positive coefficients and g(2^(k-1)) > 0 has been seen by the search.
RootLo(o) ==
    IF RootKnown(o)
    THEN CHOOSE v \in RootValues(o) : \A w \in RootValues(o) : NumLe(v, w)
    ELSE IF RootOnGrid(o) THEN GridPoint(RootCell(o, GridQ, GridQ * 2 ^ o.k))
    ELSE IF PositiveCoefs(o) /\ o.k > 1 THEN TimesPow2(One, o.k - 1)
    ELSE BracketLow

RootHi(o) ==
    IF RootKnown(o)
    THEN CHOOSE v \in RootValues(o) : \A w \in RootValues(o) : NumLe(w, v)
    ELSE IF RootOnGrid(o) THEN GridPoint(RootCell(o, GridQ, GridQ * 2 ^ o.k) + 1)
    ELSE TimesPow2(One, o.k)

----------------------------------------------------------------------------
(* solver.py: find_root.  The deltas of the model are whole numbers, or    *)
(* lie in [0.001, 0.02] ("tiny"): on these the tests of the code on logs   *)
(* and powers are decided exactly by the bounds stated below.  A list with *)
(* another positive delta gives the outcome FindUnmodelled.                *)

\* x * n for n >= 0, by doubling
RECURSIVE NumTimes(_, _)
NumTimes(x, n) ==
    IF n = 0 THEN Zero
    ELSE Only({ IF n % 2 = 0 THEN NumAdd(half, half) ELSE NumAdd(NumAdd(half, half), y) :
                    half \in { NumTimes(x, n \div 2) }, y \in { x } })

\* What find_root gives.  kind: "inf" (math.inf), "value" (val, a float the
\* code states itself), "root" (a float of a root-finder, known to lie in
\* [lo, hi]) or "unmodelled".  near: the root-finder ended within its
\* tolerance of the solution of the equation.  path: the root-finder that
\* gave the root.  bracketed: the call reached the bracketing.
FindOutcome(kind, val, lo, hi, near, path, bracketed) ==
    [kind |-> kind, val |-> val, lo |-> lo, hi |-> hi, near |-> near,
     path |-> path, bracketed |-> bracketed]

FindInf == FindOutcome("inf", Zero, Zero, Zero, FALSE, "", FALSE)

FindValue(v, bracketed) == FindOutcome("value", v, v, v, FALSE, "", bracketed)

FindRoot(lo, hi, near, path) == FindOutcome("root", Zero, lo, hi, near, path, TRUE)

FindUnmodelled == FindOutcome("unmodelled", Zero, Zero, Zero, FALSE, "", FALSE)

\* float(np.min(d))
RECURSIVE MinDelta(_)
MinDelta(d) ==
    IF Len(d) = 1 THEN d[1]
    ELSE LET rest == MinDelta(Tail(d)) IN IF NumLt(d[1], rest) THEN d[1] ELSE rest

\* 0.001 <= a <= 0.02
TinyDelta(a) == NumLe(<<0, 1000, 0, 0>>, a) /\ NumLe(a, <<0, 20000, 0, 0>>)

WholeDelta(a) == IsIntegral(a) /\ NumLe(One, a) /\ a[4] <= 1

ModelledDeltas(d) == \A j \in 1..Len(d) : TinyDelta(d[j]) \/ WholeDelta(d[j])

\* b_cap = 1e12
BCap == <<0, 0, 0, 1000>>

\* exponent >= log_cap, that is m >= (b_cap / 1.01) ^ min_delta: true for a
\* tiny min_delta ((1e12 / 1.01) ^ 0.02 < 1.74 < 2 <= m), false for
\* min_delta >= 1 and m below 1e11.
BracketCapped(d) == TinyDelta(MinDelta(d))

\* An upper bound of b == max(2.0, math.exp(exponent) * 1.01) for
\* min_delta >= 1: m ^ (1 / min_delta) * 1.01 <= m * 1.01 <= m + 1.
AnalyticBracket(d) == IF BracketCapped(d) THEN BCap ELSE NumOfInt(Max(2, Len(d) + 1))

\* g(b_cap) <= 0 for the capped bracket: a tiny delta gives a term
\* 1e12 ^ -delta in [0.57, 0.98] and a whole delta one below 1e-12, so
\* the sum is at most 1 exactly when one delta only is tiny.
GNotPositiveAtCap(d) == Cardinality({j \in 1..Len(d) : TinyDelta(d[j])}) <= 1

\* for _ in range(40)
ExpandIterations == 40

\* "Fallback: expand bracket if needed" from its iteration it on: bb stays
\* min(bb * 2.0, 1e12) == 1e12, and so does g(bb).  TRUE when the loop ends
\* by break, FALSE when it ends in its else (return PENALTY).
RECURSIVE ExpandBracket(_, _)
ExpandBracket(d, it) ==
    IF it >= ExpandIterations THEN FALSE
    ELSE IF GNotPositiveAtCap(d) THEN TRUE
    ELSE ExpandBracket(d, it + 1)

\* The bracket [1, b] has g(b) <= 0 when the code reaches the root-finders:
\* g(b) < 0 for the analytic b (sum x^-d_j <= m * x^-min_delta), and the
\* test of g(b_cap) for the capped one.
BracketFound(d) ==
    IF BracketCapped(d) THEN GNotPositiveAtCap(d) \/ ExpandBracket(d, 0) ELSE TRUE

\* The solution of sum_j x^-delta_j = 1 is at least the number of deltas
\* that are at most 1 (each of them gives a term >= 1 / x), and at least 1.
RootLowerBound(d) ==
    NumOfInt(Max(1, Cardinality({j \in 1..Len(d) : NumLe(d[j], One)})))

\* root_scalar(g, bracket=(1.0, b), method="brentq"): brentq ends within its
\* tolerance of the solution in the bracket.
Brent(d) == FindRoot(RootLowerBound(d), AnalyticBracket(d), TRUE, "brent")

\* x0: None, a float that is not finite, or a finite float
NoHint == [given |-> FALSE, finite |-> FALSE, val |-> Zero]

NonFiniteHint == [given |-> TRUE, finite |-> FALSE, val |-> Zero]

Hint(v) == [given |-> TRUE, finite |-> TRUE, val |-> v]

\* "x0 is not None" alone: a hint that is not finite starts newton too.
UsesNewtonGiven(x0) == x0.given

\* x0 is not None and np.isfinite(x0)
UsesNewton(x0) == x0.given /\ x0.finite

\* np.clip(x0, 1.0, b) == 1.0
ClippedToOne(x0) == NumLe(x0.val, One)

\* The first Newton step from x == 1.0, where g == m - 1 and g' == -sum(d):
\* newton returns converged at once when the step (m - 1) / sum(d) is at
\* most its tol of 1.48e-8, that is when (m - 1) * 1e10 <= 148 * sum(d).
NewtonStopsAtOne(d) ==
    NumLe(NumTimes(<<0, 0, 0, 10>>, Len(d) - 1), NumTimes(NumSum(d), 148))

\* 1 + 1.48e-8
OnePlusNewtonTol == <<1, 0, 148000, 0>>

\* What root_scalar(method="newton", x0=x0c, maxiter=20) followed by the
\* test "converged and 1.0 <= root <= b * 1.000001" can give: the roots it
\* lets find_root return, and "brent" when find_root goes on to brentq.
\* From 1.0 with a first step within tol the iteration stops there, with
\* 1 < root <= 1 + tol.  Otherwise it converges to the solution or it does
\* not converge within maxiter.
NewtonOutcomes(d, x0) ==
    IF ClippedToOne(x0) /\ NewtonStopsAtOne(d)
    THEN { FindRoot(One, OnePlusNewtonTol, FALSE, "newton") }
    ELSE { FindRoot(RootLowerBound(d), AnalyticBracket(d), TRUE, "newton"), Brent(d) }

SingleTermNever(m) == FALSE

\* if m == 1: return 1.0
SingleTerm(m) == m = 1

\* The floats find_root(deltas, x0=x0) can return.
find_root(deltas, x0) ==
    LET m == Len(deltas)
    IN  IF m = 0 THEN { FindInf }
        ELSE IF SingleTerm(m) THEN { FindValue(One, FALSE) }
        ELSE IF NumLe(MinDelta(deltas), Zero) THEN { FindValue(PENALTY, FALSE) }
        ELSE IF ~ModelledDeltas(deltas) THEN { FindUnmodelled }
        ELSE IF ~BracketFound(deltas) THEN { FindValue(PENALTY, TRUE) }
        ELSE IF UsesNewton(x0) THEN NewtonOutcomes(deltas, x0)
        ELSE { Brent(deltas) }

----------------------------------------------------------------------------
(* The texts given to parse_recurrence.                                    *)

\* The longest right-hand side, in summands.
MaxSummands == 2

\* Left-hand sides, well-formed and not.
LhsTexts ==
    { <<"T", "(", "n", ")">>,
      <<"T", "(", "n", ",", "m", ")">>,
      <<"T", "(", "n", ",", ")">>,
      <<"T", "(", "n", ",", "n", ")">>,
      <<"T", "(", "n", ",", "n", ",", "1", ")">>,
      <<"T", "(", "1", ")">>,
      <<"1", "T", "(", "n", ")">>,
      <<"T", "(", ")">>,
      <<"T">>,
      <<>>,
      <<"T", "(", "n">>,
      <<"T", " ", "(", "n", ",", " ", "m", ")">> }

\* Right-hand sides tried with every left-hand side.
RhsTexts ==
    { <<"1">>,
      <<"T", "(", "n", "-", "1", ")">>,
      <<"+">>,
      <<>>,
      <<"T", "(", "n", "-", "1", ",", "m", "-", "1", ")">>,
      <<"S", "(", "n", "-", "1", ")">>,
      <<"T", "(", "n", "-", "1", ")", "+">>,
      <<"x">>,
      <<"T", "(", "n", "-", "1", ",", "n", "-", "1", ")">> }

\* Summands of a recurrence T(n) = ...; the first is the empty summand.
Summands1 ==
    { <<>>,
      <<"T", "(", "n", "-", "1", ")">>,
      <<"T", "(", "n", "-", "2", ")">>,
      <<"2", "*", "T", "(", "n", "-", "1", ")">>,
      <<"-", "1", "*", "T", "(", "n", "-", "1", ")">>,
      <<"-", "2", "T", "(", "n", "-", "2", ")">>,
      <<"0", ".", "5", "*", "T", "(", "n", "-", "2", ")">>,
      <<"1", ".", "1", "*", "T", "(", "n", "-", "1", ")">>,
      <<"0", ".", "0", "0", "0", "0", "0", "0", "0", "0", "0", "0", "0", "1", "*", "T", "(", "n", "-", "1", ")">>,
      <<"0", ".", "0", "0", "0", "0", "0", "0", "0", "0", "0", "0", "0", "0", "1", "*", "T", "(", "n", "-", "2", ")">>,
      <<"T", "(", "n", "+", "1", ")">>,
      <<"3">>,
      <<"-", "3">>,
      <<"0", ".", "1", "2", "3", "4", "5", "6", "*", "T", "(", "n", "-", "1", ")">>,
      <<"S", "(", "n", "-", "1", ")">>,
      <<"T", "(", "m", "-", "1", ")">>,
      <<"T", "(", "n", "-", "1", ",", "m", ")">>,
      <<"x">>,
      <<" ", "T", "(", " ", "n", " ", "-", " ", "1", " ", ")", " ">> }

\* Summands of a recurrence T(n,m) = ...
Summands2 ==
    { <<>>,
      <<"T", "(", "n", "-", "1", ",", "m", ")">>,
      <<"T", "(", "n", ",", "m", "-", "1", ")">>,
      <<"2", "T", "(", "n", "-", "1", ",", "m", ")">>,
      <<"-", "T", "(", "n", "-", "1", ",", "m", ")">>,
      <<"-", "1", "*", "T", "(", "n", ",", "m", "-", "1", ")">>,
      <<"T", "(", "n", "-", "1", ")">>,
      <<"T", "(", "n", "-", "1", ",", "m", "-", ")">>,
      <<"5">> }

\* Texts without exactly one '='.
OtherTexts ==
    { <<>>,
      <<" ", " ">>,
      <<"T", "(", "n", ")">>,
      <<"T", "(", "n", ")", "=", "1", "=", "2">>,
      <<"=", "1">> }

\* Every sum of 1..MaxSummands summands.
Sums(summands) ==
    UNION { { Join(ps, <<"+">>) : ps \in [1..k -> summands] } : k \in 1..MaxSummands }

Texts ==
    { l \o <<"=">> \o r : l \in LhsTexts, r \in RhsTexts }
    \cup { <<"T", "(", "n", ")", "=">> \o r : r \in Sums(Summands1) }
    \cup { <<"T", "(", "n", ",", "m", ")", " ", "=", " ">> \o r : r \in Sums(Summands2) }
    \cup OtherTexts

----------------------------------------------------------------------------
(* The names given to is_valid_identifier.                                 *)

MaxNameLen == 2

NameChars == {"T", "alpha", "1", "_", "{", "-", " ", "\n"}

Names == UNION { [1..k -> NameChars] : k \in 0..MaxNameLen }

----------------------------------------------------------------------------
(* The Recurrence objects given to solve_recurrence and                    *)
(* format_asymptotics: built as a caller of the library can build them,    *)
(* lhs with no, one or two variables, coefficient 1 and zero shifts.       *)

MaxTerms == 2

\* 1, 2, 0.5, 1 + 1e-13, 1 - 1e-13, 1 - 1e-12, -1
SolverCoefs ==
    { One, <<2, 0, 0, 0>>, <<0, 500000, 0, 0>>, <<1, 0, 1, 0>>,
      <<0, 999999, 9999999, 0>>, <<0, 999999, 9999990, 0>>, <<-1, 0, 0, 0>> }

SolverShifts == {-2, -1, 0, 1}

SolverConstants == { ConstantTerm(<<5, 0, 0, 0>>), ConstantTerm(<<-1, 0, 0, 0>>) }

VarN == <<"n">>

VarM == <<"m">>

SolverTerms1 ==
    { FunctionTerm(c, <<"T">>, <<VarN>>, <<NumOfInt(d)>>) : c \in SolverCoefs, d \in SolverShifts }
    \cup SolverConstants

SolverTerms2 ==
    { FunctionTerm(One, <<"T">>, <<VarN, VarM>>, <<NumOfInt(-1), NumOfInt(d)>>) : d \in {-1, 0} }
    \cup SolverConstants

Lhs(vars_list) == FunctionTerm(One, <<"T">>, vars_list, [j \in 1..Len(vars_list) |-> Zero])

SeqsUpTo(S, n) == UNION { [1..k -> S] : k \in 0..n }

SolverRecs ==
    { Recurrence(Lhs(<<VarN>>), r) : r \in SeqsUpTo(SolverTerms1, MaxTerms) }
    \cup { Recurrence(Lhs(<<VarN, VarM>>), r) : r \in SeqsUpTo(SolverTerms2, 1) }
    \cup { Recurrence(Lhs(<<>>), r) : r \in SeqsUpTo(SolverConstants, 1) }

FiniteRoot(v) == [inf |-> FALSE, val |-> v]

InfiniteRoot == [inf |-> TRUE, val |-> Zero]

\* The roots given to format_asymptotics: math.inf, 1.0, 2.5, 1.1, PENALTY.
RootArgs ==
    { InfiniteRoot, FiniteRoot(One), FiniteRoot(<<2, 500000, 0, 0>>),
      FiniteRoot(<<1, 100000, 0, 0>>), FiniteRoot(PENALTY) }

\* The constant-term edits of a right-hand side: one ConstantTerm added,
\* removed or replaced; the function terms stay as and where they are.
InsertAt(s, i, e) == SubSeq(s, 1, i - 1) \o <<e>> \o SubSeq(s, i, Len(s))

RemoveAt(s, i) == SubSeq(s, 1, i - 1) \o SubSeq(s, i + 1, Len(s))

ConstantEdits(rhs) ==
    { InsertAt(rhs, i, c) : i \in 1..(Len(rhs) + 1), c \in SolverConstants }
    \cup { RemoveAt(rhs, i) : i \in { j \in 1..Len(rhs) : IsConstantTerm(rhs[j]) } }
    \cup { [rhs EXCEPT ![i] = c] :
              i \in { j \in 1..Len(rhs) : IsConstantTerm(rhs[j]) }, c \in SolverConstants }

\* The recurrences whose coefficients and deltas are raised: coefficients
\* 0.5, 1, 2 and -1, shifts -2, -1, 1 and 2.
MonoCoefs == { <<0, 500000, 0, 0>>, One, <<2, 0, 0, 0>>, <<-1, 0, 0, 0>> }

MonoShifts == {-2, -1, 1, 2}

MonoTerms == { FunctionTerm(c, <<"T">>, <<VarN>>, <<NumOfInt(d)>>) : c \in MonoCoefs, d \in MonoShifts }

MonoRecs == { Recurrence(Lhs(<<VarN>>), r) : r \in SeqsUpTo(MonoTerms, MaxTerms) }

\* The floats given to snap_int: whole parts -2 .. 2, and digits after the
\* point that put them on, next to and away from the whole numbers and the
\* decimals of six places.
SnapArgs ==
    { NumAdd(NumOfInt(i), <<0, m, u, 0>>) :
        i \in -2..2,
        m \in {0, 1, 250000, 618033, 999998, 999999},
        u \in {0, 10 ^ 6, 4999999, 5 * 10 ^ 6, 5000001, 8 * 10 ^ 6, 9999999} }

----------------------------------------------------------------------------
(* The geometric recurrences: T(n) = k*T(n-1) and T(n) = T(n-1) + ...      *)

MaxFactor == 40

MaxCopies == 3

\* The factors k: 2 .. MaxFactor, 1000, 10^6, 2^20 and 10^12.
GeoFactors ==
    { NumOfInt(k) : k \in 2..MaxFactor }
    \cup { NumOfInt(1000), NumOfInt(10 ^ 6), NumOfInt(1048576), <<0, 0, 0, 1000>> }

TextTn1 == <<"T", "(", "n", "-", "1", ")">>

GeoLhs == <<"T", "(", "n", ")", " ", "=", " ">>

\* 'T(n) = k*T(n-1)'
GeoText(k) == GeoLhs \o BigNatToStr(k[1], k[4]) \o <<"*">> \o TextTn1

\* 'T(n) = T(n-1) + ... + T(n-1)', k copies
CopiesText(k) == GeoLhs \o Join([i \in 1..k |-> TextTn1], <<" ", "+", " ">>)

GeoTexts == { GeoText(k) : k \in GeoFactors } \cup { CopiesText(k) : k \in 2..MaxCopies }

----------------------------------------------------------------------------
(* The process-wide state the core operations can see, and their calls.    *)

\* The module-level variables of parser.py and solver.py, and numpy's error
\* handling mode, which np.errstate sets.
ModuleVars(mode) ==
    [PENALTY |-> PENALTY, NUMBER_PATTERN |-> "^-?\\d+(?:\\.\\d+)?$",
     IDENTIFIER_PATTERN |-> "^[\\p{L}][\\p{L}\\p{N}_{}]*$", errstate |-> mode]

\* with np.errstate(over="ignore", under="ignore", invalid="ignore"):
\* __enter__ keeps the mode in force and sets "ignore".
ErrEnter(mode) == [mode |-> "ignore", saved |-> mode]

\* __exit__ leaving the mode as the block set it: the variant C21 must tell
\* apart.
ErrExitKeep(e) == e.mode

\* __exit__ puts the kept mode back.
ErrExit(e) == e.saved

\* The mode after a with np.errstate(...) block, given the mode before it.
WithErrstate(mode) == ErrExit(ErrEnter(mode))

MaxCalls == 3

RecFib ==
    Recurrence(Lhs(<<VarN>>),
               <<FunctionTerm(One, <<"T">>, <<VarN>>, <<NumOfInt(-1)>>),
                 FunctionTerm(One, <<"T">>, <<VarN>>, <<NumOfInt(-2)>>)>>)

RecHalf ==
    Recurrence(Lhs(<<VarN>>),
               <<FunctionTerm(<<0, 500000, 0, 0>>, <<"T">>, <<VarN>>, <<NumOfInt(-1)>>)>>)

RecTwoVars ==
    Recurrence(Lhs(<<VarN, VarM>>),
               <<FunctionTerm(One, <<"T">>, <<VarN, VarM>>, <<NumOfInt(-1), Zero>>)>>)

CoreCall(op, txt, r, d, x0, root) ==
    [op |-> op, text |-> txt, rec |-> r, deltas |-> d, x0 |-> x0, root |-> root]

\* The calls of the core made in the model: each operation with arguments
\* that make it return, return a sentinel and raise.
CoreCalls ==
    { CoreCall("parse_recurrence", t, NoResult, <<>>, NoHint, InfiniteRoot) :
        t \in { <<"T", "(", "n", ")", "=", "2", "*", "T", "(", "n", "-", "1", ")">>,
                <<"T", "(", "n", ")", "=">> } }
    \cup { CoreCall("solve_recurrence", <<>>, r, <<>>, NoHint, InfiniteRoot) :
              r \in { RecFib, RecHalf, RecTwoVars } }
    \cup { CoreCall("find_root", <<>>, NoResult, d, x0, InfiniteRoot) :
              d \in { <<>>, <<One, NumOfInt(2)>>, <<Zero, One>> },
              x0 \in { NoHint, Hint(<<1, 500000, 0, 0>>) } }
    \cup { CoreCall("format_recurrence", <<>>, RecHalf, <<>>, NoHint, InfiniteRoot) }
    \cup { CoreCall("format_asymptotics", <<>>, r, <<>>, NoHint, root) :
              r \in { RecFib, RecTwoVars },
              root \in { InfiniteRoot, FiniteRoot(<<1, 100000, 0, 0>>) } }

\* The float arithmetic of the machine, the same in every call: whether a
\* product x * factor lies above its exact value (slack) and whether the
\* Newton iteration ends within its 20 rounds (newton).
Fpus == [slack : {0, 1}, newton : BOOLEAN]

NoFpu == [slack |-> 0, newton |-> FALSE]

\* The float find_root returns among those the model admits.
FindPick(outs, f) ==
    IF \E o \in outs : o.path = "newton" /\ (f.newton \/ Cardinality(outs) = 1)
    THEN CHOOSE o \in outs : o.path = "newton"
    ELSE CHOOSE o \in outs : o.path # "newton"

\* What the call c returns or raises.
CallOutcome(c, f) ==
    IF c.op = "parse_recurrence" THEN parse_recurrence(c.text)
    ELSE IF c.op = "solve_recurrence" THEN solve_recurrence(c.rec)
    ELSE IF c.op = "find_root" THEN FindPick(find_root(c.deltas, c.x0), f)
    ELSE IF c.op = "format_recurrence" THEN format_recurrence(c.rec, f.slack)
    ELSE format_asymptotics(c.rec, c.root, f.slack)

\* The call reaches a with np.errstate(...) block: solve_recurrence at
\* g(1.0), find_root at g(b).
EvaluatesG(c) ==
    \/ c.op = "solve_recurrence" /\ SolveEarly(c.rec) \notin {SolveRaises, SolveValue(One)}
                                 /\ \A j \in 1..Len(DeltasOf(c.rec)) : NumLt(Zero, DeltasOf(c.rec)[j])
    \/ c.op = "find_root" /\ Len(c.deltas) >= 2 /\ NumLt(Zero, MinDelta(c.deltas))

\* The process-wide variables after the call c.
ModuleVarsAfter(c, mv) ==
    IF EvaluatesG(c) THEN [mv EXCEPT !.errstate = WithErrstate(mv.errstate)] ELSE mv

----------------------------------------------------------------------------
(* The deltas and the hints given to find_root.                            *)

MaxDeltas == 3

\* 1, 2, 1e9, 0.01, 0, -1
DeltaValues ==
    { One, <<2, 0, 0, 0>>, <<0, 0, 0, 1>>, <<0, 10000, 0, 0>>, Zero, <<-1, 0, 0, 0>> }

DeltaLists == SeqsUpTo(DeltaValues, MaxDeltas)

\* None, inf or nan, 0.5, 1.5, 1e6
Hints ==
    { NoHint, NonFiniteHint, Hint(<<0, 500000, 0, 0>>), Hint(<<1, 500000, 0, 0>>),
      Hint(PENALTY) }

----------------------------------------------------------------------------
(* The state.  These uses of the library share it:                         *)
(*   Spec       a text is parsed, the Recurrence is formatted and the      *)
(*              formatted text is parsed again;                            *)
(*   SpecIdent  a name is given to is_valid_identifier;                    *)
(*   SpecSolve  a Recurrence is solved, its constants are edited and it is *)
(*              solved again, or it is given to format_asymptotics;        *)
(*   SpecFind   find_root is called twice on a list of deltas, with two    *)
(*              warm-start hints;                                          *)
(*   SpecLoops  one call of find_root or of solve_recurrence, a loop       *)
(*              iteration at a time;                                       *)
(*   SpecMono   a Recurrence is solved, one of its coefficients or deltas  *)
(*              is raised and it is solved again;                          *)
(*   SpecSnap   a float is given to snap_int;                              *)
(*   SpecCalls  a sequence of calls of the core operations in one process; *)
(*   SpecCli    main of solve_recurrence.py runs on its arguments;         *)
(*   SpecTypes  a FunctionTerm and a Recurrence are constructed;           *)
(*   SpecGeo    a text 'T(n) = k*T(n-1)', or a sum of k copies of T(n-1),   *)
(*              is parsed, solved and its asymptotics are rendered;        *)
(*   SpecSplit  a text is given to _split_rhs;                             *)
(*   SpecCache  _rule_value of optimize.py is called again and again;      *)
(*   SpecAgree  a Recurrence is solved and its deltas go to find_root.     *)

VARIABLES pc, text, rec, formatted, rec2, name, valid, srec, result, result0, asym,
          fdeltas, hint1, hint2, found1, found2, bb, iters, niters, srec0, sval, snapped, aroot,
          modvars, modvars0, fpu, history,
          argv, readok, status, stdout, stderr,
          ctor, tlhs, trec,
          split_arg, pieces,
          root_cache, called, solved, returned

parseVars == <<text, rec, formatted, rec2>>

identVars == <<name, valid>>

solveVars == <<srec, result, result0, asym>>

findVars == <<fdeltas, hint1, hint2, found1, found2>>

\* The locals of the loops: the bracket end (b, bb), the iterations done by
\* the bracket loop and by newton.
loopVars == <<bb, iters, niters>>

\* The Recurrence before one of its coefficients or deltas was raised.
monoVars == <<srec0>>

\* The float given to snap_int and the float it returns.
snapVars == <<sval, snapped>>

\* The root given to format_asymptotics.
asymVars == <<aroot>>

\* The process-wide variables, the machine's float arithmetic and the calls made.
procVars == <<modvars, modvars0, fpu, history>>

\* The arguments of main, whether it read its input, its exit status and what it printed.
cliVars == <<argv, readok, status, stdout, stderr>>

\* The arguments of the constructors of types.py, the FunctionTerm and the Recurrence built.
typeVars == <<ctor, tlhs, trec>>

\* _split_rhs(s): its argument and its returned list
splitVars == <<split_arg, pieces>>

\* main of optimize.py: root_cache, and the last _rule_value call (its rule, what root gave, what it returned)
cacheVars == <<root_cache, called, solved, returned>>

vars == <<pc, text, rec, formatted, rec2, name, valid, srec, result, result0, asym,
          fdeltas, hint1, hint2, found1, found2, bb, iters, niters, srec0, sval, snapped, aroot,
          modvars, modvars0, fpu, history,
          argv, readok, status, stdout, stderr,
          ctor, tlhs, trec,
          split_arg, pieces,
          root_cache, called, solved, returned>>

\* The variables an action of one use leaves alone: those of the other uses.
notParse == <<identVars, solveVars, findVars, loopVars, monoVars, snapVars, asymVars, procVars, cliVars, typeVars, splitVars, cacheVars>>

notIdent == <<parseVars, solveVars, findVars, loopVars, monoVars, snapVars, asymVars, procVars, cliVars, typeVars, splitVars, cacheVars>>

notSolve == <<parseVars, identVars, findVars, loopVars, monoVars, snapVars, asymVars, procVars, cliVars, typeVars, splitVars, cacheVars>>

notFind == <<parseVars, identVars, solveVars, loopVars, monoVars, snapVars, asymVars, procVars, cliVars, typeVars, splitVars, cacheVars>>

NoAsym == [exc |-> "none", out |-> <<>>]

\* No constructor called yet.
NoCtor == [coef |-> Zero, vars |-> <<>>, shifts |-> <<>>, rhs |-> <<>>]

\* main not yet called: no arguments, no exit status.
NoArgs == [source |-> "none", verbose |-> FALSE, json |-> FALSE, content |-> <<>>]

NoStatus == "none"

NoSolve == SolveOutcome("none", Zero, FALSE, 0, <<>>, <<>>)

ParseIdle == text = <<>> /\ rec = NoResult /\ formatted = <<>> /\ rec2 = NoResult

IdentIdle == name = <<>> /\ valid = FALSE

SolveIdle ==
    srec = Recurrence(Lhs(<<VarN>>), <<>>) /\ result = NoSolve /\ result0 = NoSolve /\ asym = NoAsym

NoFind == FindOutcome("none", Zero, Zero, Zero, FALSE, "", FALSE)

FindIdle ==
    fdeltas = <<>> /\ hint1 = NoHint /\ hint2 = NoHint /\ found1 = NoFind /\ found2 = NoFind

LoopIdle == bb = Zero /\ iters = 0 /\ niters = 0

MonoIdle == srec0 = Recurrence(Lhs(<<VarN>>), <<>>)

SnapIdle == sval = Zero /\ snapped = Zero

AsymIdle == aroot = FiniteRoot(Zero)

ProcIdle == modvars = ModuleVars("warn") /\ modvars0 = ModuleVars("warn") /\ fpu = NoFpu /\ history = <<>>

CliIdle == argv = NoArgs /\ readok = FALSE /\ status = NoStatus /\ stdout = <<>> /\ stderr = <<>>

TypeIdle == ctor = NoCtor /\ tlhs = NoTerm /\ trec = NoResult

SplitIdle == split_arg = <<>> /\ pieces = <<>>

CacheIdle == root_cache = <<>> /\ called = <<>> /\ solved = NoFind /\ returned = NoFind

\* The variables of every use but one are at rest.
Idle(use) ==
    /\ LoopIdle
    /\ MonoIdle
    /\ SnapIdle /\ AsymIdle /\ ProcIdle /\ CliIdle /\ TypeIdle /\ SplitIdle /\ CacheIdle
    /\ use = "parse" \/ ParseIdle
    /\ use = "ident" \/ IdentIdle
    /\ use = "solve" \/ SolveIdle
    /\ use = "find" \/ FindIdle

Init ==
    /\ pc = "start"
    /\ text \in Texts
    /\ rec = NoResult
    /\ formatted = <<>>
    /\ rec2 = NoResult
    /\ Idle("parse")

\* rec = parse_recurrence(text)
Parse ==
    /\ pc = "start"
    /\ rec' = parse_recurrence(text)
    /\ pc' = "parsed"
    /\ UNCHANGED <<text, formatted, rec2, notParse>>

\* formatted = format_recurrence(rec)
Format ==
    /\ pc = "parsed"
    /\ rec.ok
    /\ \E slack \in {0, 1} : formatted' = format_recurrence(rec, slack)
    /\ pc' = "formatted"
    /\ UNCHANGED <<text, rec, rec2, notParse>>

\* rec2 = parse_recurrence(formatted)
Reparse ==
    /\ pc = "formatted"
    /\ rec2' = parse_recurrence(formatted)
    /\ pc' = "reparsed"
    /\ UNCHANGED <<text, rec, formatted, notParse>>

Next == Parse \/ Format \/ Reparse

Spec == Init /\ [][Next]_vars

InitIdent ==
    /\ pc = "start"
    /\ name \in Names
    /\ valid = FALSE
    /\ Idle("ident")

\* valid = is_valid_identifier(name)
Validate ==
    /\ pc = "start"
    /\ valid' = is_valid_identifier(name)
    /\ pc' = "validated"
    /\ UNCHANGED <<name, notIdent>>

NextIdent == Validate

SpecIdent == InitIdent /\ [][NextIdent]_vars

InitSolve ==
    /\ pc = "start"
    /\ srec \in SolverRecs
    /\ result = NoSolve
    /\ result0 = NoSolve
    /\ asym = NoAsym
    /\ Idle("solve")

\* result = solve_recurrence(srec)
Solve ==
    /\ pc = "start"
    /\ result' = solve_recurrence(srec)
    /\ pc' = "solved"
    /\ UNCHANGED <<srec, result0, asym, notSolve>>

\* The caller keeps the result and edits the constant terms of srec.rhs.
EditConstants ==
    /\ pc = "solved"
    /\ \E r \in ConstantEdits(srec.rhs) : srec' = Recurrence(srec.lhs, r)
    /\ result0' = result
    /\ pc' = "edited"
    /\ UNCHANGED <<result, asym, notSolve>>

\* result = solve_recurrence(srec), for the edited srec
SolveAgain ==
    /\ pc = "edited"
    /\ result' = solve_recurrence(srec)
    /\ pc' = "resolved"
    /\ UNCHANGED <<srec, result0, asym, notSolve>>

\* asym = format_asymptotics(srec, root), for a root of the caller's (a
\* caller that caught the ValueError of solve_recurrence included)
FormatAsymptotics ==
    /\ pc = "solved"
    /\ \E root \in RootArgs, slack \in {0, 1} :
          /\ asym' = format_asymptotics(srec, root, slack)
          /\ aroot' = root
    /\ pc' = "asymptotics"
    /\ UNCHANGED <<srec, result, result0, parseVars, identVars, findVars, loopVars, monoVars, snapVars, procVars, cliVars, typeVars, splitVars, cacheVars>>

InitFind ==
    /\ pc = "start"
    /\ fdeltas \in DeltaLists
    /\ hint1 \in Hints
    /\ hint2 \in Hints
    /\ found1 = NoFind
    /\ found2 = NoFind
    /\ Idle("find")

\* found1 = find_root(fdeltas, x0=hint1)
Find1 ==
    /\ pc = "start"
    /\ found1' \in find_root(fdeltas, hint1)
    /\ pc' = "found1"
    /\ UNCHANGED <<fdeltas, hint1, hint2, found2, notFind>>

\* found2 = find_root(fdeltas, x0=hint2)
Find2 ==
    /\ pc = "found1"
    /\ found2' \in find_root(fdeltas, hint2)
    /\ pc' = "found2"
    /\ UNCHANGED <<fdeltas, hint1, hint2, found1, notFind>>

NextFind == Find1 \/ Find2

SpecFind == InitFind /\ [][NextFind]_vars

NextSolve == Solve \/ EditConstants \/ SolveAgain \/ FormatAsymptotics

SpecSolve == InitSolve /\ [][NextSolve]_vars

----------------------------------------------------------------------------
(* A Recurrence is solved, changed and solved again.                       *)

InitMono ==
    /\ pc = "start"
    /\ srec \in MonoRecs
    /\ srec0 = srec
    /\ result = NoSolve
    /\ result0 = NoSolve
    /\ asym = NoAsym
    /\ ParseIdle /\ IdentIdle /\ FindIdle /\ LoopIdle /\ SnapIdle /\ AsymIdle /\ ProcIdle /\ CliIdle /\ TypeIdle /\ SplitIdle /\ CacheIdle

notMono == <<parseVars, identVars, findVars, loopVars, snapVars, asymVars, procVars, cliVars, typeVars, splitVars, cacheVars>>

\* The caller keeps the Recurrence and the result, and raises the
\* coefficient of one term.
RaiseCoefficient ==
    /\ pc = "solved"
    /\ \E j \in 1..Len(srec.rhs), c \in MonoCoefs :
          /\ NumLt(srec.rhs[j].coef, c)
          /\ srec' = Recurrence(srec.lhs, [srec.rhs EXCEPT ![j].coef = c])
    /\ srec0' = srec
    /\ result0' = result
    /\ pc' = "coef_raised"
    /\ UNCHANGED <<result, asym, notMono>>

\* The caller keeps the Recurrence and the result, and raises the delta of
\* one term, that is lowers its shift.
RaiseDelta ==
    /\ pc = "solved"
    /\ \E j \in 1..Len(srec.rhs), d \in MonoShifts :
          /\ d < IntOf(srec.rhs[j].shifts[1])
          /\ srec' = Recurrence(srec.lhs, [srec.rhs EXCEPT ![j].shifts = <<NumOfInt(d)>>])
    /\ srec0' = srec
    /\ result0' = result
    /\ pc' = "delta_raised"
    /\ UNCHANGED <<result, asym, notMono>>

\* result = solve_recurrence(srec), for the changed srec
SolveRaised ==
    /\ pc \in {"coef_raised", "delta_raised"}
    /\ result' = solve_recurrence(srec)
    /\ pc' = IF pc = "coef_raised" THEN "coef_resolved" ELSE "delta_resolved"
    /\ UNCHANGED <<srec, srec0, result0, asym, notMono>>

NextMono == Solve \/ RaiseCoefficient \/ RaiseDelta \/ SolveRaised

SpecMono == InitMono /\ [][NextMono]_vars

----------------------------------------------------------------------------
(* A float is given to snap_int.                                           *)

InitSnap ==
    /\ pc = "start"
    /\ sval \in SnapArgs
    /\ snapped = Zero
    /\ ParseIdle /\ IdentIdle /\ SolveIdle /\ FindIdle /\ LoopIdle /\ MonoIdle /\ AsymIdle /\ ProcIdle /\ CliIdle /\ TypeIdle /\ SplitIdle /\ CacheIdle

\* snapped = snap_int(sval)
Snap ==
    /\ pc = "start"
    /\ \E tie \in {0, 1} : snapped' = snap_int(sval, tie)
    /\ pc' = "snapped"
    /\ UNCHANGED <<sval, parseVars, identVars, solveVars, findVars, loopVars, monoVars, asymVars, procVars, cliVars, typeVars, splitVars, cacheVars>>

NextSnap == Snap

SpecSnap == InitSnap /\ [][NextSnap]_vars

----------------------------------------------------------------------------
(* A geometric recurrence from its text to its asymptotics.                *)

InitGeo ==
    /\ pc = "start"
    /\ text \in GeoTexts
    /\ rec = NoResult
    /\ formatted = <<>>
    /\ rec2 = NoResult
    /\ Idle("parse")

\* The floats solve_recurrence can return for an outcome of the model.
ReturnedValues(o) ==
    IF o.kind = "value" THEN {o.val}
    ELSE IF RootKnown(o) THEN RootValues(o)
    ELSE {}

\* root = solve_recurrence(rec)
SolveParsed ==
    /\ pc = "parsed"
    /\ rec.ok
    /\ result' = solve_recurrence(rec)
    /\ pc' = "geo_solved"
    /\ UNCHANGED <<parseVars, identVars, srec, result0, asym, findVars, loopVars, monoVars,
                   snapVars, asymVars, procVars, cliVars, typeVars, splitVars, cacheVars>>

\* result = format_asymptotics(rec, root)
RenderSolved ==
    /\ pc = "geo_solved"
    /\ \E v \in ReturnedValues(result), slack \in {0, 1} :
          /\ aroot' = FiniteRoot(v)
          /\ asym' = format_asymptotics(rec, FiniteRoot(v), slack)
    /\ pc' = "geo_rendered"
    /\ UNCHANGED <<parseVars, identVars, srec, result, result0, findVars, loopVars, monoVars,
                   snapVars, procVars, cliVars, typeVars, splitVars, cacheVars>>

NextGeo == Parse \/ SolveParsed \/ RenderSolved

SpecGeo == InitGeo /\ [][NextGeo]_vars

----------------------------------------------------------------------------
(* Calls of the core operations, one after another in one process.         *)

InitCalls ==
    /\ pc = "start"
    /\ \E mode \in {"warn", "raise"} : modvars = ModuleVars(mode) /\ modvars0 = ModuleVars(mode)
    /\ fpu \in Fpus
    /\ history = <<>>
    /\ ParseIdle /\ IdentIdle /\ SolveIdle /\ FindIdle /\ LoopIdle /\ MonoIdle /\ SnapIdle
    /\ AsymIdle /\ CliIdle /\ TypeIdle /\ SplitIdle /\ CacheIdle

callsFixed ==
    <<parseVars, identVars, solveVars, findVars, loopVars, monoVars, snapVars, asymVars,
      modvars0, fpu, cliVars, typeVars, splitVars, cacheVars>>

\* The first call of the process.
CallFirst ==
    /\ pc = "start"
    /\ \E c \in CoreCalls :
          /\ history' = <<[call |-> c, out |-> CallOutcome(c, fpu)]>>
          /\ modvars' = ModuleVarsAfter(c, modvars)
    /\ pc' = "called"
    /\ UNCHANGED callsFixed

\* A later call, after the calls of history.
CallNext ==
    /\ pc = "called"
    /\ Len(history) < MaxCalls
    /\ \E c \in CoreCalls :
          /\ history' = Append(history, [call |-> c, out |-> CallOutcome(c, fpu)])
          /\ modvars' = ModuleVarsAfter(c, modvars)
    /\ UNCHANGED <<pc, callsFixed>>

NextCalls == CallFirst \/ CallNext

SpecCalls == InitCalls /\ [][NextCalls]_vars

----------------------------------------------------------------------------
(* solve_recurrence.py: main.  Its arguments are those argparse gives; the *)
(* input is the argument itself, a file it names or the standard input,    *)
(* and content is the text found there.                                    *)

\* return 0
ExitSuccess == 0

\* return 1 as return 0: the variant C22 must tell apart.
ExitFailureAsSuccess == ExitSuccess

\* return 1
ExitFailure == 1

CliTexts ==
    { <<>>,
      <<" ", "\n">>,
      <<"i", "n", "v", "a", "l", "i", "d">>,
      <<"T", "(", "n", ")", " ", "=", " ", "2", "*", "T", "(", "n", "-", "1", ")">>,
      <<"T", "(", "n", ")", " ", "=", " ", "T", "(", "n", "-", "1", ")">>,
      <<"T", "(", "n", ")", " ", "=", " ", "5">>,
      <<"T", "(", "n", ")", " ", "=", " ", "1", ".", "1", "*", "T", "(", "n", "-", "1", ")">>,
      <<"T", "(", "n", ")", " ", "=", " ", "T", "(", "n", ")">>,
      <<"T", "(", "n", ")", " ", "=", " ", "0", ".", "5", "*", "T", "(", "n", "-", "1", ")">>,
      <<"T", "(", "n", ")", " ", "=", " ", "1", "0", "0", "0", "0", "0", "0", "*", "T", "(", "n", "-", "1", ")">>,
      <<"T", "(", "n", ",", "m", ")", " ", "=", " ", "T", "(", "n", "-", "1", ",", "m", ")">> }

CliArgs ==
    [source : {"arg", "file", "stdin"}, verbose : BOOLEAN, json : BOOLEAN, content : CliTexts]

\* _get_input(args.input): the text, or the exception it raises.  A file
\* can vanish or refuse to be read between path.exists() and read_text(),
\* the standard input can fail to decode, and Path.exists() raises OSError
\* on a name the system rejects.
ReadOutcomes(a) ==
    { [exc |-> "", text |-> a.content], [exc |-> "Exception", text |-> <<>>] }
    \cup (IF a.source = "file" THEN { [exc |-> "FileNotFoundError", text |-> <<>>] } ELSE {})

\* not text.strip()
Blank(t) == \A i \in 1..Len(t) : t[i] \in Whitespace

\* A JSON envelope: the keys it has and their values.
Envelope(keys, ok, error, divergent, root, asymptotics) ==
    [keys |-> keys, ok |-> ok, error |-> error, divergent |-> divergent, root |-> root,
     asymptotics |-> asymptotics]

\* A printed line of text: what it is and what it shows.
Line(label, shown) == [label |-> label, shown |-> shown]

\* _error(message, as_json): what goes to stdout and to stderr.
_error(message, as_json) ==
    IF as_json
    THEN [out |-> <<Envelope({"ok", "error"}, FALSE, message, FALSE, InfiniteRoot, <<>>)>>,
          err |-> <<>>]
    ELSE [out |-> <<>>, err |-> <<Line("Error", <<message>>)>>]

\* is_divergent = math.isinf(root)
IsDivergent(root) == root.inf

\* is_invalid = root >= PENALTY
IsInvalid(root) == root.inf \/ NumLe(PENALTY, root.val)

VerboseKeys(verbose) == IF verbose THEN {"recurrence", "function", "variables"} ELSE {}

\* _output_json(rec, root, verbose): the envelope printed.
_output_json(r, root, verbose, slack) ==
    IF IsDivergent(root)
    THEN <<Envelope({"ok", "divergent"} \cup VerboseKeys(verbose), TRUE, "", TRUE,
                    InfiniteRoot, <<>>)>>
    ELSE IF IsInvalid(root)
    THEN <<Envelope({"ok", "error"} \cup VerboseKeys(verbose), FALSE,
                    "No valid root found (non-positive shifts)", FALSE, InfiniteRoot, <<>>)>>
    ELSE <<Envelope({"ok", "divergent", "root", "asymptotics"} \cup VerboseKeys(verbose),
                    TRUE, "", FALSE, root, format_asymptotics(r, root, slack).out)>>

\* _output_text(rec, root, verbose): the lines printed.
_output_text(r, root, verbose, slack) ==
    (IF verbose
     THEN <<Line("Recurrence", format_recurrence(r, slack)), Line("Function", r.lhs.func),
            Line("Variable", r.lhs.vars[1])>>
     ELSE <<>>)
    \o (IF IsDivergent(root) THEN <<Line("Result", <<"Divergent (infinite growth)">>)>>
        ELSE IF IsInvalid(root)
        THEN <<Line("Result", <<"No valid root (check for non-positive shifts)">>)>>
        ELSE IF verbose
        THEN <<Line("Root", root.val), Line("Asymptotics", format_asymptotics(r, root, slack).out)>>
        ELSE <<Line("", format_asymptotics(r, root, slack).out)>>)

\* The output functions call format_asymptotics(rec, root).
CallsFormatAsymptotics(root) == ~IsDivergent(root) /\ ~IsInvalid(root)

InitCli ==
    /\ pc = "start"
    /\ argv \in CliArgs
    /\ readok = FALSE
    /\ status = NoStatus
    /\ stdout = <<>>
    /\ stderr = <<>>
    /\ ParseIdle /\ IdentIdle /\ SolveIdle /\ FindIdle /\ LoopIdle /\ MonoIdle /\ SnapIdle
    /\ AsymIdle /\ ProcIdle /\ TypeIdle /\ SplitIdle /\ CacheIdle

cliFixed == <<identVars, findVars, loopVars, monoVars, snapVars, procVars, formatted, rec2,
              srec, result0, argv, typeVars, splitVars, cacheVars>>

\* return 1 after _error(message, args.json)
ExitWithError(message) ==
    /\ stdout' = _error(message, argv.json).out
    /\ stderr' = _error(message, argv.json).err
    /\ status' = ExitFailure
    /\ pc' = "exited"

\* text = _get_input(args.input), in its try
MainRead ==
    /\ pc = "start"
    /\ \E o \in ReadOutcomes(argv) :
          IF o.exc = ""
          THEN /\ text' = o.text
               /\ readok' = TRUE
               /\ pc' = "read"
               /\ UNCHANGED <<status, stdout, stderr>>
          ELSE /\ ExitWithError(IF o.exc = "FileNotFoundError" THEN "File not found" ELSE "str(e)")
               /\ UNCHANGED <<text, readok>>
    /\ UNCHANGED <<cliFixed, rec, result, asym, aroot>>

\* if not text.strip()
MainCheckEmpty ==
    /\ pc = "read"
    /\ IF Blank(text)
       THEN ExitWithError("Empty input")
       ELSE pc' = "nonempty" /\ UNCHANGED <<status, stdout, stderr>>
    /\ UNCHANGED <<cliFixed, text, readok, rec, result, asym, aroot>>

\* rec = parse_recurrence(text), in its try; an exception other than
\* ParseError leaves main
MainParse ==
    /\ pc = "nonempty"
    /\ rec' = parse_recurrence(text)
    /\ IF rec'.ok THEN pc' = "parsed_cli" /\ UNCHANGED <<status, stdout, stderr>>
       ELSE IF rec'.exc = "ParseError" THEN ExitWithError("Parse error")
       ELSE pc' = "raised" /\ UNCHANGED <<status, stdout, stderr>>
    /\ UNCHANGED <<cliFixed, text, readok, result, asym, aroot>>

\* root = solve_recurrence(rec), in its try
MainSolve ==
    /\ pc = "parsed_cli"
    /\ result' = solve_recurrence(rec)
    /\ IF result' = SolveRaises
       THEN ExitWithError("Solver error")
       ELSE pc' = "solved_cli" /\ UNCHANGED <<status, stdout, stderr>>
    /\ UNCHANGED <<cliFixed, text, readok, rec, asym, aroot>>

\* _output_json or _output_text, then return 0
MainOutput ==
    /\ pc = "solved_cli"
    /\ \E v \in ReturnedValues(result), slack \in {0, 1} :
          /\ stdout' = IF argv.json
                        THEN _output_json(rec, FiniteRoot(v), argv.verbose, slack)
                        ELSE _output_text(rec, FiniteRoot(v), argv.verbose, slack)
          /\ IF CallsFormatAsymptotics(FiniteRoot(v))
             THEN /\ asym' = format_asymptotics(rec, FiniteRoot(v), slack)
                  /\ aroot' = FiniteRoot(v)
             ELSE UNCHANGED <<asym, aroot>>
    /\ status' = ExitSuccess
    /\ pc' = "exited"
    /\ UNCHANGED <<cliFixed, text, readok, rec, result, stderr>>

NextCli == MainRead \/ MainCheckEmpty \/ MainParse \/ MainSolve \/ MainOutput

SpecCli == InitCli /\ [][NextCli]_vars

----------------------------------------------------------------------------
(* types.py: a FunctionTerm is constructed and then a Recurrence with it   *)
(* as its lhs.                                                             *)

MaxVars == 2

CtorCoefs == { One, NumOfInt(2), Zero, <<1, 0, 1, 0>> }

CtorShifts == { Zero, NumOfInt(-1), <<0, 500000, 0, 0>> }

\* Right-hand sides: empty, function terms, constants, and both.
CtorRhs ==
    { <<>>,
      <<FunctionTerm(NumOfInt(2), <<"T">>, <<VarN>>, <<NumOfInt(-1)>>)>>,
      <<ConstantTerm(NumOfInt(5))>>,
      <<FunctionTerm(One, <<"T">>, <<VarN>>, <<NumOfInt(-1)>>), ConstantTerm(NumOfInt(5))>> }

CtorArgs ==
    [coef : CtorCoefs, vars : SeqsUpTo({VarN, VarM}, MaxVars),
     shifts : SeqsUpTo(CtorShifts, MaxVars), rhs : CtorRhs]

InitTypes ==
    /\ pc = "start"
    /\ ctor \in CtorArgs
    /\ tlhs = NoTerm
    /\ trec = NoResult
    /\ ParseIdle /\ IdentIdle /\ SolveIdle /\ FindIdle /\ LoopIdle /\ MonoIdle /\ SnapIdle
    /\ AsymIdle /\ ProcIdle /\ CliIdle /\ SplitIdle /\ CacheIdle

typesFixed ==
    <<parseVars, identVars, solveVars, findVars, loopVars, monoVars, snapVars, asymVars,
      procVars, cliVars, ctor, splitVars, cacheVars>>

\* lhs = FunctionTerm(coef=..., func="T", vars=..., shifts=...)
BuildFunctionTerm ==
    /\ pc = "start"
    /\ tlhs' = FunctionTerm(ctor.coef, <<"T">>, ctor.vars, ctor.shifts)
    /\ pc' = IF tlhs'.kind = "ValueError" THEN "raised" ELSE "term_built"
    /\ UNCHANGED <<typesFixed, trec>>

\* rec = Recurrence(lhs=lhs, rhs=rhs)
BuildRecurrence ==
    /\ pc = "term_built"
    /\ trec' = Recurrence(tlhs, ctor.rhs)
    /\ pc' = IF trec'.ok THEN "rec_built" ELSE "raised"
    /\ UNCHANGED <<typesFixed, tlhs>>

NextTypes == BuildFunctionTerm \/ BuildRecurrence

SpecTypes == InitTypes /\ [][NextTypes]_vars

(***************************************************************************)
(* _split_rhs on its own: the argument is any text over the characters     *)
(* the function distinguishes ('(', ')', '+') and one other character.     *)
(***************************************************************************)
MaxSplitLen == 5

SplitAlphabet == {"(", ")", "+", "n"}

\* 'T(n+1)+T(n-1)': a '+' inside parentheses and one outside
TextShiftPair ==
    <<"T", "(", "n", "+", "1", ")", "+", "T", "(", "n", "-", "1", ")">>

SplitTexts ==
    UNION { [1..k -> SplitAlphabet] : k \in 0..MaxSplitLen } \cup {TextShiftPair}

InitSplit ==
    /\ pc = "start"
    /\ split_arg \in SplitTexts
    /\ pieces = <<>>
    /\ ParseIdle /\ IdentIdle /\ SolveIdle /\ FindIdle /\ LoopIdle /\ MonoIdle /\ SnapIdle
    /\ AsymIdle /\ ProcIdle /\ CliIdle /\ TypeIdle /\ CacheIdle

\* out = _split_rhs(s)
SplitRhs ==
    /\ pc = "start"
    /\ pieces' = _split_rhs(split_arg)
    /\ pc' = "split"
    /\ UNCHANGED <<split_arg, parseVars, identVars, solveVars, findVars, loopVars, monoVars,
                   snapVars, asymVars, procVars, cliVars, typeVars, cacheVars>>

NextSplit == SplitRhs

SpecSplit == InitSplit /\ [][NextSplit]_vars

(***************************************************************************)
(* optimize.py: _rule_value and the root_cache of main.  root is the       *)
(* find_root of solver.py under another name, statement for statement.     *)
(***************************************************************************)
\* A RuleRecord: its ids and the number of rows of its branch_delta_matrix
\* (_build_situations skips a rule without branchDeltas, and "ruleId"
\* defaults to 0: two rules of a situation can share their ids).
RuleRecord(situation_id, rule_id, rows) ==
    [situation_id |-> situation_id, rule_id |-> rule_id, rows |-> rows]

RuleRecords == { RuleRecord(1, 0, 1), RuleRecord(1, 0, 2), RuleRecord(1, 1, 2) }

\* cache_key = (rule.situation_id, rule.rule_id)
CacheKey(r) == <<r.situation_id, r.rule_id>>

\* deltas = rule.branch_delta_matrix @ x: one delta for each row
RuleDeltas(r) == [1..r.rows -> DeltaValues]

\* A float kept in root_cache: lo <= v <= hi, and v < hi when open.
CacheEntry(lo, hi, open) == [lo |-> lo, hi |-> hi, open |-> open]

\* root_cache.get(cache_key) as the x0 of root: None without an entry.  The
\* float is at most 1 exactly when its upper bound is.
CacheGet(cache, key) ==
    IF key \in DOMAIN cache THEN Hint(cache[key].hi) ELSE NoHint

\* val_f < PENALTY always true: the variant C28 must tell apart.
StoresAlways(o) == {TRUE}

\* val_f < PENALTY, for the float root returned: decided by the bounds of a
\* root, open when PENALTY lies between them.
Stores(o) ==
    IF o.kind = "value" THEN { NumLt(o.val, PENALTY) }
    ELSE IF NumLt(o.hi, PENALTY) THEN {TRUE}
    ELSE IF NumLe(PENALTY, o.lo) THEN {FALSE}
    ELSE {TRUE, FALSE}

\* root_cache[cache_key] = val_f
EntryOf(o) ==
    IF o.kind = "value" THEN CacheEntry(o.val, o.val, FALSE)
    ELSE IF NumLt(o.hi, PENALTY) THEN CacheEntry(o.lo, o.hi, FALSE)
    ELSE CacheEntry(o.lo, PENALTY, TRUE)

CachePut(cache, key, e) ==
    [k \in DOMAIN cache \cup {key} |-> IF k = key THEN e ELSE cache[k]]

InitCache ==
    /\ pc = "start"
    /\ root_cache = <<>>
    /\ called = <<>>
    /\ solved = NoFind
    /\ returned = NoFind
    /\ ParseIdle /\ IdentIdle /\ SolveIdle /\ FindIdle /\ LoopIdle /\ MonoIdle /\ SnapIdle
    /\ AsymIdle /\ ProcIdle /\ CliIdle /\ TypeIdle /\ SplitIdle

\* _rule_value(x, rule)
RuleValue ==
    /\ pc \in {"start", "valued"}
    /\ \E r \in RuleRecords : \E deltas \in RuleDeltas(r) :
         \E val \in find_root(deltas, CacheGet(root_cache, CacheKey(r))) :
           /\ called' = r
           /\ solved' = val
           /\ IF val.kind = "inf"
              THEN /\ returned' = FindValue(PENALTY, FALSE)
                   /\ UNCHANGED root_cache
              ELSE /\ returned' = val
                   /\ \E store \in Stores(val) :
                        root_cache' = IF store
                                      THEN CachePut(root_cache, CacheKey(r), EntryOf(val))
                                      ELSE root_cache
    /\ pc' = "valued"
    /\ UNCHANGED <<parseVars, identVars, solveVars, findVars, loopVars, monoVars,
                   snapVars, asymVars, procVars, cliVars, typeVars, splitVars>>

NextCache == RuleValue

SpecCache == InitCache /\ [][NextCache]_vars

(***************************************************************************)
(* The two entry points on one equation: a Recurrence whose function terms *)
(* have coefficient 1 is given to solve_recurrence, and its deltas are     *)
(* given to find_root without a hint.                                      *)
(***************************************************************************)
UnitShifts == {-3, -2, -1, 0, 1}

UnitTerms ==
    { FunctionTerm(One, <<"T">>, <<VarN>>, <<NumOfInt(d)>>) : d \in UnitShifts }
    \cup SolverConstants

\* One variable, a FunctionTerm at least, shifts that differ pairwise.
UnitRecs ==
    { r \in { Recurrence(Lhs(<<VarN>>), ts) : ts \in SeqsUpTo(UnitTerms, MaxTerms) } :
        /\ FuncTerms(r) # <<>>
        /\ \A i, j \in 1..Len(FuncTerms(r)) :
              i # j => FuncTerms(r)[i].shifts # FuncTerms(r)[j].shifts }

InitAgree ==
    /\ pc = "start"
    /\ srec \in UnitRecs
    /\ result = NoSolve
    /\ result0 = NoSolve
    /\ asym = NoAsym
    /\ Idle("solve")
    /\ FindIdle

agreeFixed ==
    <<parseVars, identVars, srec, result0, asym, hint1, hint2, found2, loopVars, monoVars,
      snapVars, asymVars, procVars, cliVars, typeVars, splitVars, cacheVars>>

\* solve_recurrence(rec)
SolveUnit ==
    /\ pc = "start"
    /\ result' = solve_recurrence(srec)
    /\ pc' = "unit_solved"
    /\ UNCHANGED <<fdeltas, found1, agreeFixed>>

\* find_root([-t.shifts[0] for t in func_terms])
FindUnit ==
    /\ pc = "unit_solved"
    /\ fdeltas' = DeltasOf(srec)
    /\ found1' \in find_root(fdeltas', NoHint)
    /\ pc' = "unit_found"
    /\ UNCHANGED <<result, agreeFixed>>

NextAgree == SolveUnit \/ FindUnit

SpecAgree == InitAgree /\ [][NextAgree]_vars

----------------------------------------------------------------------------
(* find_root and solve_recurrence, a loop iteration at a time.             *)

\* maxiter=20
NewtonIterations == 20

\* np.isfinite(fb) and fb <= 0.0, for fb == g(b)
GNotPositiveAtB(d, b) == IF b = BCap THEN GNotPositiveAtCap(d) ELSE TRUE

\* The k of the iteration before: g tested at b / 2.
SearchKStale == iters

\* b == 2^k in the bracket search of solve_recurrence: b = 2.0 and one
\* "b *= 2" for every iteration done
SearchK == iters + 1

\* The recurrences solved a loop iteration at a time: those of SolverRecs
\* with one term at most or with coefficients 1 only, and 1e12 * T(n-1),
\* 1e9 * T(n-1), 1e6 * T(n-1).
LoopRecs ==
    { r \in SolverRecs : Len(r.rhs) <= 1 \/ \A j \in 1..Len(r.rhs) : r.rhs[j].coef = One } \cup
    { Recurrence(Lhs(<<VarN>>), <<FunctionTerm(c, <<"T">>, <<VarN>>, <<NumOfInt(-1)>>)>>) :
        c \in { <<0, 0, 0, 1000>>, <<0, 0, 0, 1>>, <<10 ^ 6, 0, 0, 0>> } }

InitLoops ==
    /\ ParseIdle /\ IdentIdle /\ LoopIdle /\ MonoIdle /\ SnapIdle /\ AsymIdle /\ ProcIdle /\ CliIdle /\ TypeIdle /\ SplitIdle /\ CacheIdle
    /\ hint2 = NoHint /\ found1 = NoFind /\ found2 = NoFind
    /\ result = NoSolve /\ result0 = NoSolve /\ asym = NoAsym
    /\ \/ /\ pc = "find"
          /\ fdeltas \in DeltaLists
          /\ hint1 \in Hints
          /\ srec = Recurrence(Lhs(<<VarN>>), <<>>)
       \/ /\ pc = "solve"
          /\ srec \in LoopRecs
          /\ fdeltas = <<>>
          /\ hint1 = NoHint

loopFixed == <<parseVars, identVars, srec, result0, asym, fdeltas, hint1, hint2, found2, srec0, snapVars, asymVars, procVars, cliVars, typeVars, splitVars, cacheVars>>

\* find_root up to fb = g(b): the early returns and the analytic bracket
FindEnter ==
    /\ pc = "find"
    /\ LET early == find_root(fdeltas, hint1)
           m == Len(fdeltas)
       IN  IF m < 2 \/ NumLe(MinDelta(fdeltas), Zero) \/ ~ModelledDeltas(fdeltas)
           THEN /\ found1' \in early
                /\ pc' = "returned"
                /\ UNCHANGED bb
           ELSE /\ bb' = AnalyticBracket(fdeltas)
                /\ pc' = IF GNotPositiveAtB(fdeltas, bb') THEN "bracketed" ELSE "expand"
                /\ UNCHANGED found1
    /\ UNCHANGED <<iters, niters, result, loopFixed>>

\* One iteration of "for _ in range(40)"
ExpandStep ==
    /\ pc = "expand"
    /\ iters < ExpandIterations
    /\ bb' = (IF NumLt(NumAdd(bb, bb), BCap) THEN NumAdd(bb, bb) ELSE BCap)
    /\ iters' = iters + 1
    /\ pc' = IF GNotPositiveAtB(fdeltas, bb') THEN "bracketed" ELSE "expand"
    /\ UNCHANGED <<niters, found1, result, loopFixed>>

\* The else of the loop: return PENALTY
ExpandElse ==
    /\ pc = "expand"
    /\ iters >= ExpandIterations
    /\ found1' = FindValue(PENALTY, TRUE)
    /\ pc' = "returned"
    /\ UNCHANGED <<bb, iters, niters, result, loopFixed>>

\* if x0 is not None and np.isfinite(x0)
NewtonEnter ==
    /\ pc = "bracketed"
    /\ pc' = IF UsesNewton(hint1) THEN "newton" ELSE "brentq"
    /\ UNCHANGED <<bb, iters, niters, found1, result, loopFixed>>

\* One iteration of newton: it converges to a float find_root accepts, it
\* ends with one find_root does not accept (or raises), or it goes on.
NewtonStep ==
    /\ pc = "newton"
    /\ niters < NewtonIterations
    /\ niters' = niters + 1
    /\ IF niters = 0 /\ ClippedToOne(hint1) /\ NewtonStopsAtOne(fdeltas)
       THEN /\ found1' = FindRoot(One, OnePlusNewtonTol, FALSE, "newton")
            /\ pc' = "returned"
       ELSE \/ /\ found1' = FindRoot(RootLowerBound(fdeltas), AnalyticBracket(fdeltas),
                                     TRUE, "newton")
               /\ pc' = "returned"
            \/ /\ pc' \in {"brentq", "newton"}
               /\ UNCHANGED found1
    /\ UNCHANGED <<bb, iters, result, loopFixed>>

\* maxiter reached: sol_n.converged is False (or root_scalar raised)
NewtonGiveUp ==
    /\ pc = "newton"
    /\ niters >= NewtonIterations
    /\ pc' = "brentq"
    /\ UNCHANGED <<bb, iters, niters, found1, result, loopFixed>>

\* sol = root_scalar(g, bracket=(1.0, b), method="brentq")
Brentq ==
    /\ pc = "brentq"
    /\ found1' = Brent(fdeltas)
    /\ pc' = "returned"
    /\ UNCHANGED <<bb, iters, niters, result, loopFixed>>

\* solve_recurrence up to "Find upper bracket": the early returns, b = 2.0
SolveEnter ==
    /\ pc = "solve"
    /\ IF SolveEarly(srec) # SolveGoesOn
       THEN /\ result' = SolveEarly(srec)
            /\ pc' = "returned"
            /\ UNCHANGED bb
       ELSE /\ bb' = NumOfInt(2)
            /\ pc' = "search"
            /\ UNCHANGED result
    /\ UNCHANGED <<iters, niters, found1, loopFixed>>

\* One iteration of "for _ in range(50)", or its else
SearchStep ==
    /\ pc = "search"
    /\ IF iters >= BracketIterations
       THEN /\ result' = SearchFailed
            /\ pc' = "returned"
            /\ UNCHANGED <<bb, iters>>
       ELSE IF GNotPositiveAt(CoefsOf(srec), DeltasOf(srec), SearchK)
       THEN /\ pc' = "solve_brentq"
            /\ UNCHANGED <<bb, iters, result>>
       ELSE /\ bb' = NumAdd(bb, bb)
            /\ iters' = iters + 1
            /\ IF ExceedsCap(bb')
               THEN result' = SearchFailed /\ pc' = "returned"
               ELSE pc' = "search" /\ UNCHANGED result
    /\ UNCHANGED <<niters, found1, loopFixed>>

\* sol = root_scalar(g, bracket=(1.0, b), method="brentq")
SolveBrentq ==
    /\ pc = "solve_brentq"
    /\ result' = BrentRoot(CoefsOf(srec), DeltasOf(srec), SearchK)
    /\ pc' = "returned"
    /\ UNCHANGED <<bb, iters, niters, found1, loopFixed>>

NextLoops ==
    \/ FindEnter \/ ExpandStep \/ ExpandElse \/ NewtonEnter \/ NewtonStep \/ NewtonGiveUp
    \/ Brentq \/ SolveEnter \/ SearchStep \/ SolveBrentq

SpecLoops == InitLoops /\ [][NextLoops]_vars

\* A call that can take a step takes it.
SpecLoopsFair == SpecLoops /\ WF_vars(NextLoops)

----------------------------------------------------------------------------
(* The grammar of the specification, as a recognizer of its own:           *)
(*   recurrence := lhs "=" rhs                                             *)
(*   lhs        := identifier "(" identifier {"," identifier} ")"          *)
(*   rhs        := term {"+" term}                                         *)
(*   term       := number | [number ["*"]] identifier "(" arg {"," arg} ")"*)
(*   arg        := identifier [("+"|"-") number]                           *)

G_Identifier(s) == IdentifierBody(s)

G_Number(s) == IsNumber(s)

G_Arg(s) ==
    \E k \in 1..Len(s) :
        /\ G_Identifier(SubSeq(s, 1, k))
        /\ \/ k = Len(s)
           \/ s[k + 1] \in {"+", "-"} /\ G_Number(Drop(s, k + 1))

\* item {"," item}
G_List(s, Item(_)) == \A i \in 1..Len(Split(s, ",")) : Item(Split(s, ",")[i])

\* identifier "(" item {"," item} ")"
G_Call(s, Item(_)) ==
    \E k \in 1..Len(s) :
        /\ G_Identifier(SubSeq(s, 1, k))
        /\ k + 2 <= Len(s)
        /\ s[k + 1] = "("
        /\ s[Len(s)] = ")"
        /\ G_List(SubSeq(s, k + 2, Len(s) - 1), Item)

G_Term(s) ==
    \/ G_Number(s)
    \/ \E j \in 0..Len(s) :
          /\ \/ j = 0
             \/ G_Number(SubSeq(s, 1, j))
             \/ j >= 2 /\ s[j] = "*" /\ G_Number(SubSeq(s, 1, j - 1))
          /\ G_Call(Drop(s, j), G_Arg)

RECURSIVE G_Rhs(_)
G_Rhs(s) ==
    \/ G_Term(s)
    \/ \E k \in 1..Len(s) :
          s[k] = "+" /\ G_Term(SubSeq(s, 1, k - 1)) /\ G_Rhs(Drop(s, k))

G_Lhs(s) == G_Call(s, G_Identifier)

G_Recurrence(s) ==
    \E k \in 1..Len(s) : s[k] = "=" /\ G_Lhs(SubSeq(s, 1, k - 1)) /\ G_Rhs(Drop(s, k))

----------------------------------------------------------------------------
(* Claims about the parser and the formatter.                              *)

Parsed == pc # "start"

\* Two terms are the same term: same variant, same shift vector, coefficients
\* that differ by at most 1e-12.
SameTerm(a, b) ==
    /\ a.kind = b.kind
    /\ a.shifts = b.shifts
    /\ NumLe(NumAbs(NumSub(a.coef, b.coef)), Threshold)

SameMultiset(r1, r2) ==
    /\ Len(r1) = Len(r2)
    /\ \E f \in Permutations(1..Len(r1)) : \A i \in 1..Len(r1) : SameTerm(r1[i], r2[f[i]])

\* C1: round trip.  For every accepted text, parsing the formatted
\* Recurrence succeeds and gives the same lhs (function name, variables) and
\* the same multiset of rhs terms, coefficients compared up to 1e-12.
C1_RoundTrip ==
    pc = "reparsed" =>
        /\ rec2.ok
        /\ rec2.lhs.func = rec.lhs.func
        /\ rec2.lhs.vars = rec.lhs.vars
        /\ SameMultiset(rec.rhs, rec2.rhs)

\* C2: parse_recurrence returns a Recurrence only for a text that, with its
\* whitespace removed, is derivable from the grammar, and every other text
\* raises ParseError: an empty summand or an empty slot in the lhs argument
\* list is rejected.
C2_AcceptsOnlyTheGrammar ==
    Parsed =>
        /\ rec.ok => G_Recurrence(StripWhitespace(text))
        /\ ~rec.ok => rec.exc = "ParseError"

Distinct(xs) == \A i, j \in 1..Len(xs) : i # j => xs[i] # xs[j]

RecurrenceInvariant(r) ==
    r.ok =>
        /\ r.lhs.coef = One
        /\ \A i \in 1..Len(r.lhs.shifts) : r.lhs.shifts[i] = Zero
        /\ Len(r.lhs.vars) >= 1
        /\ Distinct(r.lhs.vars)
        /\ \A i \in 1..Len(r.rhs) :
              IsFunctionTerm(r.rhs[i]) =>
                  /\ r.rhs[i].func = r.lhs.func
                  /\ r.rhs[i].vars = r.lhs.vars
                  /\ Len(r.rhs[i].shifts) = Len(r.lhs.vars)

\* C3: every Recurrence parse_recurrence returns has lhs.coef == 1, all lhs
\* shifts 0, a non-empty list of pairwise distinct lhs variables, and in
\* every rhs FunctionTerm the lhs function name, the lhs variables and one
\* shift per variable.
C3_ParsedInvariants == RecurrenceInvariant(rec) /\ RecurrenceInvariant(rec2)

\* A two-variable recurrence with two function terms has been parsed.
C3_Witness ==
    /\ pc = "parsed"
    /\ rec.ok
    /\ Len(rec.lhs.vars) = 2
    /\ Len(rec.rhs) = 2
    /\ IsFunctionTerm(rec.rhs[1])
    /\ IsFunctionTerm(rec.rhs[2])

----------------------------------------------------------------------------
(* C4: the order of the checks, stated rule by rule.  A violation is a     *)
(* pair <<rule, offending part>>; NoViolation stands for an accepted text. *)

NoViolation == <<"", <<>>>>

Count(s, c) == Cardinality({i \in 1..Len(s) : s[i] = c})

\* The first element of xs that satisfies P, as <<rule, element>>.
FirstThat(xs, P(_), rule) ==
    LET i == CHOOSE k \in 1..Len(xs) : P(xs[k]) /\ \A j \in 1..(k - 1) : ~P(xs[j])
    IN  <<rule, xs[i]>>

Some(xs, P(_)) == \E i \in 1..Len(xs) : P(xs[i])

\* The rules of one rhs summand, in the order of the claim: not a term,
\* another function name, another arity, an argument that is not
\* 'lhs-variable[+-number]'.
SummandViolation(summand, func, vars_list) ==
    IF IsNumber(summand) THEN NoViolation
    ELSE IF ~TermMatch(summand) THEN <<"Invalid term", summand>>
    ELSE IF TermFnName(summand) # func THEN <<"different function name", TermFnName(summand)>>
    ELSE IF Len(Split(CallArgs(summand), ",")) # Len(vars_list)
    THEN <<"wrong number of args", summand>>
    ELSE LET args == Split(CallArgs(summand), ",")
             bad  == {i \in 1..Len(args) : ~ShiftMatch(args[i], vars_list[i])}
         IN  IF bad = {} THEN NoViolation
             ELSE <<"Invalid argument", args[CHOOSE i \in bad : \A j \in bad : i <= j]>>

\* The summands left to right: the violation of the first one that has one.
RhsViolation(summands, func, vars_list) ==
    LET bad == {i \in 1..Len(summands) :
                    SummandViolation(summands[i], func, vars_list) # NoViolation}
    IN  IF bad = {} THEN NoViolation
        ELSE SummandViolation(summands[CHOOSE i \in bad : \A j \in bad : i <= j],
                              func, vars_list)

\* The lhs arguments, rule by rule as the claim lists them: an invalid name
\* anywhere comes before a duplicate anywhere.
ArgsViolationByRule(args) ==
    IF Some(args, LAMBDA a : ~G_Identifier(a))
    THEN FirstThat(args, LAMBDA a : ~G_Identifier(a), "Invalid variable name")
    ELSE IF ~Distinct(args)
    THEN LET i == CHOOSE k \in 1..Len(args) :
                     /\ \E j \in 1..(k - 1) : args[j] = args[k]
                     /\ \A l \in 1..(k - 1) : \A j \in 1..(l - 1) : args[j] # args[l]
         IN  <<"Duplicate variable name", args[i]>>
    ELSE NoViolation

\* The lhs arguments, argument by argument from the left: each one is
\* checked for its name and then against the arguments before it.
ArgsViolationByArgument(args) ==
    LET bad == {i \in 1..Len(args) :
                    ~G_Identifier(args[i]) \/ \E j \in 1..(i - 1) : args[j] = args[i]}
        i   == CHOOSE k \in bad : \A j \in bad : k <= j
    IN  IF bad = {} THEN NoViolation
        ELSE IF ~G_Identifier(args[i]) THEN <<"Invalid variable name", args[i]>>
        ELSE <<"Duplicate variable name", args[i]>>

\* The first violation of a text.  With byArgument = FALSE the lhs arguments
\* are checked rule by rule, as the claim lists the rules; with
\* byArgument = TRUE they are checked one by one from the left.  A rhs that
\* holds no summand at all (only '+') is an empty rhs found once the lhs has
\* been checked.
FirstViolation(t, byArgument) ==
    LET c == StripWhitespace(t)
    IN  IF c = <<>> THEN <<"Empty input", <<>>>>
        ELSE IF Count(c, "=") # 1 THEN <<"Expected exactly one '='", t>>
        ELSE
          LET l == SubSeq(c, 1, FirstIndex(c, "=") - 1)
              r == Drop(c, FirstIndex(c, "="))
          IN  IF l = <<>> THEN <<"Empty left-hand side", <<>>>>
              ELSE IF r = <<>> THEN <<"Empty right-hand side", <<>>>>
              ELSE IF ~LhsMatch(l) THEN <<"Invalid left-hand side", l>>
              ELSE IF ~G_Identifier(CallHead(l)) THEN <<"Invalid function name", CallHead(l)>>
              ELSE
                LET args     == NonEmptyParts(Split(CallArgs(l), ","))
                    summands == NonEmptyParts(_split_rhs(r))
                    av       == IF byArgument THEN ArgsViolationByArgument(args)
                                ELSE ArgsViolationByRule(args)
                IN  IF args = <<>> THEN <<"No arguments", l>>
                    ELSE IF av # NoViolation THEN av
                    ELSE IF summands = <<>> THEN <<"Empty right-hand side", <<>>>>
                    ELSE RhsViolation(summands, CallHead(l), args)

\* C4 as stated: parse_recurrence raises the ParseError of the first
\* violation in the order empty input, number of '=', empty lhs, empty rhs,
\* lhs shape, function name, no lhs arguments, invalid variable name,
\* duplicate variable, then the summands left to right; nothing else escapes.
C4_OrderAsStated ==
    Parsed =>
        /\ rec.exc \in {"", "ParseError"}
        /\ rec.err = FirstViolation(text, FALSE)[1]

\* C4, amended: the same order, except that the lhs arguments are checked one
\* by one from the left, each for its name and then for a duplicate of an
\* earlier argument, so that a duplicate is reported before an invalid name
\* that stands to its right.  The ParseError names the rule and quotes the
\* offending part, no other exception escapes and a failed call returns
\* nothing.
C4_OrderAmended ==
    Parsed =>
        /\ rec.exc \in {"", "ParseError"}
        /\ <<rec.err, rec.what>> = FirstViolation(text, TRUE)
        /\ ~rec.ok => rec.lhs = NoTerm /\ rec.rhs = <<>>

\* A duplicate argument precedes an invalid one and is the error reported.
C4_Witness ==
    /\ pc = "parsed"
    /\ StartsWith(text, <<"T", "(", "n", ",", "n", ",", "1", ")">>)
    /\ rec.err = "Duplicate variable name"

----------------------------------------------------------------------------
(* C6: term normalization, stated on the summands of the text.             *)

\* The raw terms of an accepted text, before _combine_terms.
RawTerms(t, r) ==
    LET summands == NonEmptyParts(_split_rhs(Split(StripWhitespace(t), "=")[2]))
    IN  [i \in 1..Len(summands) |-> _parse_term(summands[i], r.lhs.func, r.lhs.vars).term]

RECURSIVE SumCoefs(_)
SumCoefs(ts) == IF ts = <<>> THEN Zero ELSE NumAdd(SumCoefs(Front(ts)), ts[Len(ts)].coef)

SumWhere(raw, P(_)) == SumCoefs(SelectSeq(raw, P))

GroupSum(raw, shifts) == SumWhere(raw, LAMBDA x : IsFunctionTerm(x) /\ x.shifts = shifts)

FirstOccurrence(raw, shifts) ==
    CHOOSE i \in 1..Len(raw) :
        /\ IsFunctionTerm(raw[i]) /\ raw[i].shifts = shifts
        /\ \A j \in 1..(i - 1) : ~(IsFunctionTerm(raw[j]) /\ raw[j].shifts = shifts)

Exceeds(x) == NumLt(Threshold, NumAbs(x))

Normalized(raw, out) ==
    LET csum == SumWhere(raw, IsConstantTerm)
    IN  /\ \A i \in 2..Len(out) : IsFunctionTerm(out[i])
        /\ Exceeds(csum) <=> (out # <<>> /\ IsConstantTerm(out[1]))
        /\ (out # <<>> /\ IsConstantTerm(out[1])) => out[1].coef = csum
        /\ \A i, j \in 1..Len(out) :
              (i < j /\ IsFunctionTerm(out[i]) /\ IsFunctionTerm(out[j])) =>
                  /\ out[i].shifts # out[j].shifts
                  /\ FirstOccurrence(raw, out[i].shifts) < FirstOccurrence(raw, out[j].shifts)
        /\ \A i \in 1..Len(out) :
              IsFunctionTerm(out[i]) =>
                  /\ Some(raw, LAMBDA x : IsFunctionTerm(x) /\ x.shifts = out[i].shifts)
                  /\ out[i].coef = GroupSum(raw, out[i].shifts)
        /\ \A i \in 1..Len(raw) :
              (IsFunctionTerm(raw[i]) /\ Exceeds(GroupSum(raw, raw[i].shifts))) =>
                  Some(out, LAMBDA x : IsFunctionTerm(x) /\ x.shifts = raw[i].shifts)
        /\ \A i \in 1..Len(out) : Exceeds(out[i].coef)

\* C6: the rhs of a parsed Recurrence is the combined constant first, only if
\* its magnitude exceeds 1e-12, then one FunctionTerm per distinct shift
\* vector in the order of first occurrence with the sum of its group, only if
\* the magnitude of that sum exceeds 1e-12: no term has a coefficient of
\* magnitude 1e-12 or less.
C6_Normalized == (Parsed /\ rec.ok) => Normalized(RawTerms(text, rec), rec.rhs)

----------------------------------------------------------------------------
(* Claims about is_valid_identifier (under SpecIdent).                     *)

\* The identifier of the specification: non-empty, a letter first, then
\* letters, digits, '_', '{' or '}' only.
IsSpecIdentifier(s) ==
    /\ s # <<>>
    /\ Head(s) \in Letters
    /\ \A i \in 2..Len(s) : s[i] \in Letters \cup Digits \cup {"_", "{", "}"}

\* C5: is_valid_identifier(s) is true exactly when s is non-empty, starts
\* with a letter and continues with letters, digits, '_', '{' or '}' only;
\* every other string, one ending in a line break included, is rejected.
C5_ExactlyIdentifiers == pc = "validated" => (valid <=> IsSpecIdentifier(name))

----------------------------------------------------------------------------
(* Claims about solve_recurrence and format_asymptotics (under SpecSolve). *)

SingleVariable == Len(srec.lhs.vars) = 1

\* C7: solve_recurrence and format_asymptotics raise ValueError, and return
\* no value, exactly when the lhs has a number of variables other than one,
\* whatever the rhs and the root.
C7_UnsupportedInput ==
    /\ pc \in {"solved", "resolved", "asymptotics"} =>
          IF SingleVariable
          THEN result.kind \in {"value", "root"}
          ELSE result = SolveRaises
    /\ pc = "asymptotics" =>
          IF SingleVariable
          THEN asym.exc = "" /\ asym.out # <<>>
          ELSE asym.exc = "ValueError" /\ asym.out = <<>>

C7_Witness ==
    /\ pc = "asymptotics"
    /\ Len(srec.lhs.vars) = 2
    /\ srec.rhs # <<>>
    /\ IsConstantTerm(srec.rhs[1])
    /\ result = SolveRaises
    /\ asym.exc = "ValueError"

\* C8: for a single-variable Recurrence, adding, removing or changing
\* ConstantTerms of the rhs never changes the result of solve_recurrence,
\* and with no FunctionTerm in the rhs the result is exactly 1.0.
C8_ConstantsIgnored ==
    SingleVariable =>
        /\ pc = "resolved" => result = result0
        /\ (pc \in {"solved", "resolved"} /\ \A i \in 1..Len(srec.rhs) : IsConstantTerm(srec.rhs[i]))
              => result = SolveValue(One)

C8_Witness ==
    /\ pc = "resolved"
    /\ SingleVariable
    /\ Len(srec.rhs) >= 2
    /\ IsConstantTerm(srec.rhs[1])
    /\ IsFunctionTerm(srec.rhs[2])
    /\ result.kind = "root"
    /\ result = result0

\* The classification of C9, from the terms of the rhs: delta_j = -shift_j
\* and g(1) = (sum of the coefficients) - 1.
FunctionTermsOf(rhs) == SelectSeq(rhs, LAMBDA t : t.kind = "F")

SomeDeltaNotPositive(rhs) ==
    \E j \in 1..Len(rhs) : rhs[j].kind = "F" /\ NumLe(Zero, rhs[j].shifts[1])

GOne(rhs) == NumSub(SumCoefs(FunctionTermsOf(rhs)), One)

\* C9: with one variable and at least one FunctionTerm: some delta_j <= 0
\* gives the infeasible sentinel, whatever the coefficients; otherwise
\* |g(1)| < 1e-12 gives exactly 1.0; otherwise g(1) < -1e-12 gives the
\* sentinel; the bracket search runs only when g(1) is positive.
C9_Classification ==
    (pc \in {"solved", "resolved"} /\ SingleVariable /\ FunctionTermsOf(srec.rhs) # <<>>) =>
        LET g1 == GOne(srec.rhs)
        IN  IF SomeDeltaNotPositive(srec.rhs) THEN result = SolveValue(PENALTY)
            ELSE IF NumLt(NumAbs(g1), Threshold) THEN result = SolveValue(One)
            ELSE IF NumLt(g1, NumNeg(Threshold)) THEN result = SolveValue(PENALTY)
            ELSE result.searched => NumLt(Zero, g1)

C9_Witness ==
    /\ pc = "solved"
    /\ SingleVariable
    /\ FunctionTermsOf(srec.rhs) # <<>>
    /\ ~SomeDeltaNotPositive(srec.rhs)
    /\ NumAbs(GOne(srec.rhs)) = <<0, 0, 1, 0>>
    /\ result = SolveValue(One)

\* The rhs is exactly one FunctionTerm with coefficient 1.
SingleUnitTerm ==
    /\ SingleVariable
    /\ Len(srec.rhs) = 1
    /\ srec.rhs[1].kind = "F"
    /\ srec.rhs[1].coef = One

\* C10 as stated: a single FunctionTerm with coefficient 1 solves to exactly
\* 1.0 for any shift of that term, negative, zero or positive.
C10_AnyShift ==
    (pc = "solved" /\ SingleUnitTerm) => result = SolveValue(One)

\* C10: a single FunctionTerm with coefficient 1 solves to exactly 1.0 when
\* its shift is negative, and to the infeasible sentinel when its shift is
\* zero or positive.
C10_NegativeShiftOnly ==
    (pc = "solved" /\ SingleUnitTerm) =>
        IF NumLt(srec.rhs[1].shifts[1], Zero)
        THEN result = SolveValue(One)
        ELSE result = SolveValue(PENALTY)

C10_Witness ==
    /\ pc = "solved"
    /\ SingleUnitTerm
    /\ srec.rhs[1].shifts[1] = One
    /\ result = SolveValue(PENALTY)

----------------------------------------------------------------------------
(* Claims about find_root (under SpecFind).                                *)

AllPositive(d) == \A j \in 1..Len(d) : NumLt(Zero, d[j])

\* C11: find_root classifies by the number m of deltas, whatever x0:
\* m == 0 gives +infinity; m == 1 gives exactly 1.0 for every delta, zero
\* and negative ones included; m >= 2 with a delta <= 0 gives PENALTY; only
\* m >= 2 with all deltas > 0 reaches the bracketing.
C11_Classification ==
    pc \in {"found1", "found2"} =>
        LET m == Len(fdeltas)
        IN  /\ m = 0 => found1 = FindInf
            /\ m = 1 => found1.kind = "value" /\ found1.val = One /\ ~found1.bracketed
            /\ (m >= 2 /\ ~AllPositive(fdeltas)) =>
                  found1.kind = "value" /\ found1.val = PENALTY /\ ~found1.bracketed
            /\ (m >= 2 /\ AllPositive(fdeltas)) => found1.bracketed

C11_Witness ==
    /\ pc = "found1"
    /\ Len(fdeltas) = 1
    /\ NumLt(fdeltas[1], Zero)
    /\ UsesNewton(hint1)
    /\ found1.val = One

\* 1e-6
RootTolerance == <<0, 1, 0, 0>>

\* Two roots that differ by more than 1e-6 wherever they lie in their
\* intervals.
Apart(o1, o2) ==
    \/ NumLt(NumAdd(o1.hi, RootTolerance), o2.lo)
    \/ NumLt(NumAdd(o2.hi, RootTolerance), o1.lo)

\* C12: for every list of deltas and any two hints, the two calls of
\* find_root return the same outcome class (divergent, infeasible or root)
\* and, when roots, values that differ by at most 1e-6.
C12_CrossPathConsistency ==
    pc = "found2" =>
        /\ found1.kind = found2.kind
        /\ found1.kind = "value" => found1.val = found2.val
        /\ found1.kind = "root" => ~Apart(found1, found2)

\* C13: every call of find_root and solve_recurrence returns; the doubling
\* loop of find_root does at most 40 iterations, newton at most 20, the
\* bracket search of solve_recurrence at most 50 and none with b above 1e12;
\* a call that leaves a loop without a bracket [1, b] with g(b) <= 0
\* returns PENALTY.
C13_Caps ==
    /\ pc = "expand" => iters <= 40
    /\ pc = "newton" => niters <= 20
    /\ pc = "search" => iters <= 50 /\ NumLe(bb, <<0, 0, 0, 1000>>)
    /\ (pc = "returned" /\ found1 # NoFind /\ found1.bracketed) =>
          IF GNotPositiveAtB(fdeltas, bb)
          THEN found1 \in find_root(fdeltas, hint1)
          ELSE iters = 40 /\ found1.kind = "value" /\ found1.val = PENALTY
    /\ (pc = "returned" /\ result # NoSolve) =>
          /\ result = solve_recurrence(srec)
          /\ result.kind \in {"ValueError", "value", "root"}
          /\ (result.searched /\ result.kind # "root") => result.val = PENALTY
          /\ result.kind = "root" =>
                /\ result.k = SearchK /\ bb = TimesPow2(One, result.k)
                /\ GNotPositiveAt(result.coefs, result.deltas, result.k)

C13_Terminates == [](C13_Caps = TRUE) /\ <>(pc = "returned")

\* The doubling loop of find_root used up its 40 iterations.
C13_Witness ==
    /\ pc = "returned" /\ iters = 40
    /\ found1 = FindValue(PENALTY, TRUE)

\* C14: for a Recurrence with one variable, solve_recurrence returns 1.0,
\* PENALTY, or a root that is at least 1, whatever the signs of the
\* coefficients.
C14_ResultDomain ==
    (pc \in {"solved", "resolved"} /\ Len(srec.lhs.vars) = 1) =>
        \/ result.kind = "value" /\ result.val \in {One, PENALTY}
        \/ result.kind = "root" /\ NumLe(One, RootLo(result)) /\ NumLe(RootLo(result), RootHi(result))

\* A root found in the bracket [1, 2] for a recurrence with two terms.
C14_Witness ==
    /\ pc = "solved" /\ result.kind = "root" /\ result.k = 1
    /\ Len(result.coefs) = 2 /\ ~RootKnown(result)

\* C15: a root that solve_recurrence takes from the root-finder is below
\* PENALTY, so that the test root >= PENALTY of the consumer tells it from
\* the infeasible sentinel.
C15_Distinguishable ==
    (pc = "returned" /\ result.kind = "root") => NumLt(RootLo(result), PENALTY)

\* Bounds of the float an outcome of solve_recurrence stands for.
ValLo(o) == IF o.kind = "root" THEN RootLo(o) ELSE o.val

ValHi(o) == IF o.kind = "root" THEN RootHi(o) ELSE o.val

\* C16 as stated: raising one coefficient never lowers the value
\* solve_recurrence returns and raising one delta never raises it, for every
\* pair of results, the sentinels included.
C16_Monotone ==
    /\ pc = "coef_resolved" => ~NumLt(ValHi(result), ValLo(result0))
    /\ pc = "delta_resolved" => ~NumLt(ValHi(result0), ValLo(result))

PositiveRec(r) == \A j \in 1..Len(r.rhs) : NumLt(Zero, r.rhs[j].coef)

Feasible(o) == o.kind = "root" \/ (o.kind = "value" /\ o.val = One)

\* C16 amended: the same, for recurrences with positive coefficients and
\* pairs of results of which none is PENALTY.
C16_MonotoneFeasible ==
    (PositiveRec(srec0) /\ PositiveRec(srec) /\ Feasible(result0) /\ Feasible(result)) =>
        /\ pc = "coef_resolved" => ~NumLt(ValHi(result), ValLo(result0))
        /\ pc = "delta_resolved" => ~NumLt(ValHi(result0), ValLo(result))

\* Two roots located on the grid, the second above the first after a
\* coefficient was raised.
C16_Witness ==
    /\ pc = "coef_resolved"
    /\ PositiveRec(srec0) /\ PositiveRec(srec)
    /\ result0.kind = "root" /\ result.kind = "root"
    /\ ~RootKnown(result0) /\ ~RootKnown(result)
    /\ NumLt(ValHi(result0), ValLo(result))

\* The digits of a float after its point, and its distance from the
\* nearest whole number.
FracOf(val) == <<0, val[2], val[3], 0>>

DistToWhole(val) ==
    IF NumLt(FracOf(val), <<0, 500000, 0, 0>>) THEN FracOf(val) ELSE NumSub(One, FracOf(val))

NearestWhole(val) ==
    IF NumLt(FracOf(val), <<0, 500000, 0, 0>>)
    THEN <<val[1], 0, 0, val[4]>>
    ELSE NumAdd(<<val[1], 0, 0, val[4]>>, One)

\* C17 as stated: snap_int gives the nearest whole number exactly when its
\* argument is within 1e-6 of one, and its argument unchanged otherwise.
C17_SnapWithin ==
    pc = "snapped" =>
        IF NumLe(DistToWhole(sval), <<0, 1, 0, 0>>)
        THEN snapped = NearestWhole(sval)
        ELSE snapped = sval

\* C17 amended: snap_int gives its argument rounded to six decimal places,
\* so a float within 5e-7 of it; that float is a whole number when the
\* argument is less than 5e-7 from one and is none when it is more than
\* 5e-7 from every whole number.
C17_SnapRounds ==
    pc = "snapped" =>
        /\ snapped[3] = 0
        /\ NumLe(NumAbs(NumSub(snapped, sval)), <<0, 0, 5 * 10 ^ 6, 0>>)
        /\ NumLt(DistToWhole(sval), <<0, 0, 5 * 10 ^ 6, 0>>) => snapped = NearestWhole(sval)
        /\ NumLt(<<0, 0, 5 * 10 ^ 6, 0>>, DistToWhole(sval)) => ~IsIntegral(snapped)

\* A float more than 1e-6 from every whole number that snap_int changes.
C17_Witness ==
    /\ pc = "snapped"
    /\ NumLt(<<0, 1, 0, 0>>, DistToWhole(sval))
    /\ snapped # sval
    /\ ~IsIntegral(snapped)

----------------------------------------------------------------------------
(* C18: the text format_recurrence renders.                                *)

\* s.split(sep) for a separator of several characters; buf is the part
\* being read.
RECURSIVE SplitOn(_, _, _)
SplitOn(s, sep, buf) ==
    IF s = <<>> THEN <<buf>>
    ELSE IF StartsWith(s, sep) THEN <<buf>> \o SplitOn(Drop(s, Len(sep)), sep, <<>>)
    ELSE SplitOn(Tail(s), sep, Append(buf, s[1]))

Occurs(s, p) == \E i \in 0..(Len(s) - Len(p)) : SubSeq(s, i + 1, i + Len(p)) = p

\* A number as the rendering shows it: the digits of a whole number, and
\* format_number's text otherwise.
NumberText(x, slack) == IF IsIntegral(x) THEN NumIntToStr(x) ELSE format_number(x, slack)

CoefText(c, slack) ==
    IF c = One THEN <<>>
    ELSE IF c = NumNeg(One) THEN <<"-">>
    ELSE NumberText(c, slack) \o <<"*">>

ArgText(var, shift, slack) ==
    IF shift = Zero THEN var
    ELSE IF NumLt(shift, Zero) THEN var \o <<"-">> \o NumberText(NumAbs(shift), slack)
    ELSE var \o <<"+">> \o NumberText(shift, slack)

TermText(t, slack) ==
    IF IsConstantTerm(t) THEN NumberText(t.coef, slack)
    ELSE CoefText(t.coef, slack) \o t.func \o <<"(">>
         \o Join([i \in 1..Len(t.vars) |-> ArgText(t.vars[i], t.shifts[i], slack)], <<",", " ">>)
         \o <<")">>

HeadText(r) == r.lhs.func \o <<"(">> \o Join(r.lhs.vars, <<",", " ">>) \o <<")", " ", "=", " ">>

\* C18: the text of format_recurrence(rec) is 'name(v1, v2, ...) = ' and
\* then '0' for an empty rhs; otherwise, with every ' - ' read back as
\* ' + -', it is the terms of rhs in their order joined by ' + ', each with
\* its coefficient as '', '-' or '<value>*', its arguments as the variable,
\* 'var-<|shift|>' or 'var+<shift>', whole numbers without a point, and the
\* text holds no ' + -'.
C18_Rendering ==
    (pc \in {"formatted", "reparsed"}) =>
        \E slack \in {0, 1} :
            /\ StartsWith(formatted, HeadText(rec))
            /\ LET rest == Drop(formatted, Len(HeadText(rec)))
               IN  IF rec.rhs = <<>> THEN rest = <<"0">>
                   ELSE /\ ~Occurs(rest, <<" ", "+", " ", "-">>)
                        /\ SplitOn(Replace(rest, <<" ", "-", " ">>, <<" ", "+", " ", "-">>),
                                   <<" ", "+", " ">>, <<>>)
                           = [i \in 1..Len(rec.rhs) |-> TermText(rec.rhs[i], slack)]

\* A rendered recurrence with a negative coefficient after its first term,
\* a coefficient other than 1 and -1, and a negative shift.
C18_Witness ==
    /\ pc = "formatted"
    /\ \E i \in 2..Len(rec.rhs) : NumLt(rec.rhs[i].coef, Zero)
    /\ \E i \in 1..Len(rec.rhs) :
          /\ IsFunctionTerm(rec.rhs[i])
          /\ rec.rhs[i].coef \notin {One, NumNeg(One)}
          /\ \E j \in 1..Len(rec.rhs[i].shifts) : NumLt(rec.rhs[i].shifts[j], Zero)

----------------------------------------------------------------------------
(* C19: the text format_asymptotics renders (under SpecSolve).             *)

\* The base printed in 'O(<base>^<var>)'.
BaseText(out) == SubSeq(out, 3, FirstIndex(out, "^") - 1)

\* C19: for a single-variable recurrence format_asymptotics gives 'O(∞)' for
\* an infinite root, 'O(1)' for the root 1 and otherwise 'O(<base>^<var>)',
\* where <base> has no trailing zeros and no trailing point, is never
\* smaller than root, exceeds it by less than 1e-5 and is root itself when
\* root has at most 5 decimal places.
C19_Asymptotics ==
    (pc = "asymptotics" /\ asym.exc = "") =>
        IF aroot.inf THEN asym.out = <<"O", "(", "infinity", ")">>
        ELSE IF aroot.val = One THEN asym.out = <<"O", "(", "1", ")">>
        ELSE /\ StartsWith(asym.out, <<"O", "(">>)
             /\ Contains(asym.out, "^")
             /\ Drop(asym.out, FirstIndex(asym.out, "^") - 1)
                = <<"^">> \o srec.lhs.vars[1] \o <<")">>
             /\ LET txt  == BaseText(asym.out)
                    base == Float(txt)
                IN  /\ txt # <<>>
                    /\ txt[Len(txt)] # "."
                    /\ Contains(txt, ".") => txt[Len(txt)] # "0"
                    /\ NumLe(aroot.val, base)
                    /\ NumLt(NumSub(base, aroot.val), <<0, 10, 0, 0>>)
                    /\ ExactAtFiveDigits(aroot.val) => base = aroot.val

----------------------------------------------------------------------------
(* C20: geometric recurrences end to end (under SpecGeo).                  *)

\* The factor k of the text: of 'T(n) = k*T(n-1)', or the number of copies.
GeoFactorOf(t) ==
    IF \E k \in GeoFactors : t = GeoText(k)
    THEN CHOOSE k \in GeoFactors : t = GeoText(k)
    ELSE NumOfInt(CHOOSE k \in 2..MaxCopies : t = CopiesText(k))

\* The text is parsed, solve_recurrence returns exactly k and
\* format_asymptotics renders 'O(k^n)'.
GeoEndToEnd(k) ==
    /\ pc # "start" => rec.ok
    /\ pc \in {"geo_solved", "geo_rendered"} => ReturnedValues(result) = {k}
    /\ pc = "geo_rendered" =>
          /\ aroot = FiniteRoot(k)
          /\ asym.exc = ""
          /\ asym.out = <<"O", "(">> \o BigNatToStr(k[1], k[4]) \o <<"^", "n", ")">>

GeoExact == NumOfInt(1048576)

\* 2^39, the largest power of 2 the bracket search reaches below 1e12.
GeoCap == <<755813888, 0, 0, 549>>

----------------------------------------------------------------------------
(* C21: the core keeps no state between calls (under SpecCalls).           *)

\* The call raised, or returned a sentinel.
RaisedOrSentinel(h) ==
    \/ h.call.op \in {"parse_recurrence", "format_asymptotics"} /\ h.out.exc # ""
    \/ h.call.op = "solve_recurrence" /\ h.out \in {SolveRaises, SolveValue(PENALTY)}
    \/ h.call.op = "find_root" /\ h.out \in {FindInf, FindValue(PENALTY, FALSE)}

----------------------------------------------------------------------------
(* C22, C30: the exit status of main and what it prints (under SpecCli).   *)

\* Reading failed, the input is blank, parse_recurrence raised ParseError
\* or solve_recurrence raised its ValueError.
MainFailure ==
    \/ ~readok
    \/ Blank(text)
    \/ rec.exc = "ParseError"
    \/ result = SolveRaises

\* An error is printed and no result: an envelope with ok false, an error
\* and no root in JSON mode, a line on stderr and nothing on stdout
\* otherwise.
ErrorOnly ==
    IF argv.json
    THEN /\ stderr = <<>>
         /\ Len(stdout) = 1
         /\ ~stdout[1].ok
         /\ "error" \in stdout[1].keys
         /\ stdout[1].keys \cap {"root", "asymptotics", "divergent"} = {}
    ELSE /\ stdout = <<>>
         /\ Len(stderr) = 1
         /\ stderr[1].label = "Error"

----------------------------------------------------------------------------
(* C23: the rule of solve_recurrence at x = 1 (under SpecSolve).           *)

\* A single-variable recurrence with function terms whose deltas are all
\* positive: solve_recurrence reaches g(1.0).
ReachesG1(r) ==
    /\ r.ok
    /\ Len(r.lhs.vars) = 1
    /\ FuncTerms(r) # <<>>
    /\ \A j \in 1..Len(DeltasOf(r)) : NumLt(Zero, DeltasOf(r)[j])

\* solve_recurrence returns exactly 1.0
ReturnsOne(o) == ReturnedValues(o) = {One}

\* C23 as stated: with all deltas positive, g(1) in (-1e-12, 0) gives the
\* infeasible sentinel and g(1) in [0, 1e-12] gives the root 1.0.
C23_BoundaryAsStated ==
    (pc = "solved" /\ ReachesG1(srec)) =>
        LET g1 == GAtOne(CoefsOf(srec))
        IN  /\ (NumLt(NumNeg(<<0, 0, 10, 0>>), g1) /\ NumLt(g1, Zero)) => result = SolveValue(PENALTY)
            /\ (NumLe(Zero, g1) /\ NumLe(g1, <<0, 0, 10, 0>>)) => ReturnsOne(result)

\* C23 amended: with all deltas positive, g(1) in the open interval
\* (-1e-12, 1e-12) gives exactly 1.0, below 0 as well as above, and
\* g(1) <= -1e-12 gives the infeasible sentinel.
C23_Boundary ==
    (pc = "solved" /\ ReachesG1(srec)) =>
        LET g1 == GAtOne(CoefsOf(srec))
        IN  /\ (NumLt(NumNeg(<<0, 0, 10, 0>>), g1) /\ NumLt(g1, <<0, 0, 10, 0>>))
                  => result = SolveValue(One)
            /\ NumLe(g1, NumNeg(<<0, 0, 10, 0>>)) => result = SolveValue(PENALTY)

\* g(1) = -1e-13 gives 1.0.
C23_Witness ==
    /\ pc = "solved"
    /\ ReachesG1(srec)
    /\ GAtOne(CoefsOf(srec)) = NumNeg(<<0, 0, 1, 0>>)
    /\ result = SolveValue(One)

----------------------------------------------------------------------------
(* C24: the constructors of the term model (under SpecTypes).              *)

\* C24: FunctionTerm raises ValueError exactly when vars and shifts differ
\* in length, Recurrence raises ValueError exactly when lhs.coef is not 1 or
\* a shift of lhs is not 0; every other construction succeeds with the
\* fields given, an empty or a mixed rhs included, so a FunctionTerm built
\* has |vars| = |shifts| and a Recurrence built has lhs.coef = 1 and all
\* lhs shifts 0.
C24_Constructors ==
    /\ pc # "start" =>
          IF Len(ctor.vars) # Len(ctor.shifts)
          THEN tlhs.kind = "ValueError" /\ pc = "raised" /\ trec = NoResult
          ELSE /\ tlhs = Term("F", ctor.coef, <<"T">>, ctor.vars, ctor.shifts)
               /\ Len(tlhs.vars) = Len(tlhs.shifts)
    /\ (pc \in {"rec_built", "raised"} /\ tlhs.kind = "F") =>
          IF ctor.coef # One \/ \E i \in 1..Len(ctor.shifts) : ctor.shifts[i] # Zero
          THEN trec.exc = "ValueError" /\ ~trec.ok /\ pc = "raised"
          ELSE /\ pc = "rec_built"
               /\ trec.ok
               /\ trec.lhs = tlhs
               /\ trec.rhs = ctor.rhs
               /\ trec.lhs.coef = One
               /\ \A i \in 1..Len(trec.lhs.shifts) : trec.lhs.shifts[i] = Zero

\* A Recurrence of two variables built with an rhs that mixes a
\* FunctionTerm and a ConstantTerm.
C24_Witness ==
    /\ pc = "rec_built"
    /\ Len(trec.lhs.vars) = 2
    /\ \E i, j \in 1..Len(trec.rhs) : IsFunctionTerm(trec.rhs[i]) /\ IsConstantTerm(trec.rhs[j])

\* ---- C25 ----
\* Number of occurrences of c among the first k characters of s.
CountUpTo(s, c, k) == Cardinality({ j \in 1..k : s[j] = c })

\* '(' minus ')' among the first k characters.
Balance(s, k) == CountUpTo(s, "(", k) - CountUpTo(s, ")", k)

\* The ')' among the first k characters that close nothing: no '(' before
\* them is still open.
LowestBalance(s, k) == CHOOSE m \in { Balance(s, j) : j \in 0..k } :
                           \A j \in 0..k : m <= Balance(s, j)

\* Parenthesis depth after the first k characters: the '(' still open.
OpenDepth(s, k) == Balance(s, k) - LowestBalance(s, k)

\* Positions of the '+' outside all parentheses.
TopLevelPlus(s) == { i \in 1..Len(s) : s[i] = "+" /\ OpenDepth(s, i - 1) = 0 }

\* The stretches of s between consecutive top-level '+' (and the two ends),
\* each as <<first, last>>, those with at least one character.
Stretches(s) ==
    LET ends == TopLevelPlus(s) \cup {Len(s) + 1}
        from(e) == IF \E c \in TopLevelPlus(s) : c < e
                   THEN 1 + CHOOSE c \in TopLevelPlus(s) :
                                /\ c < e
                                /\ \A d \in TopLevelPlus(s) : d < e => d <= c
                   ELSE 1
    IN  { <<from(e), e - 1>> : e \in ends } \ { x \in { <<from(e), e - 1>> : e \in ends } : x[1] > x[2] }

\* The stretches in their order in s.
StretchTexts(s) ==
    LET st == Stretches(s)
        nth(k) == CHOOSE x \in st : Cardinality({ y \in st : y[1] < x[1] }) = k - 1
    IN  [k \in 1..Cardinality(st) |-> SubSeq(s, nth(k)[1], nth(k)[2])]

\* C25: _split_rhs cuts its argument at exactly the '+' at parenthesis depth
\* 0; the summands it returns are the non-empty stretches between consecutive
\* such '+', characters and order kept, and no returned summand holds a
\* depth-0 '+' of its own.
C25_SplitAtDepthZero ==
    pc = "split" =>
        /\ pieces = StretchTexts(split_arg)
        /\ \A k \in 1..Len(pieces) : TopLevelPlus(pieces[k]) = {}
        /\ split_arg = TextShiftPair =>
               pieces = << <<"T", "(", "n", "+", "1", ")">>, TextTn1 >>

\* 'T(n+1)+T(n-1)' has been split into two summands.
C25_Witness ==
    /\ pc = "split"
    /\ split_arg = TextShiftPair
    /\ Len(pieces) = 2

\* ---- C26 ----
\* The exponents k >= 1 with 2^k <= 1e12.
PowersBelowCap == { k \in 1..50 : NumLe(TimesPow2(One, k), <<0, 0, 0, 1000>>) }

\* b is a power of two 2^k with k >= 1, at most 1e12.
IsPowerOfTwo(b) == \E k \in PowersBelowCap : b = TimesPow2(One, k)

ExponentOf(b) == CHOOSE k \in PowersBelowCap : b = TimesPow2(One, k)

\* g(b) <= 0 for the g of find_root: at b = 1e12 by the test of the code's
\* bracket, below it because each of the m terms b^-delta_j with
\* delta_j >= 1 is at most 1 / b and m <= b.
FindGNotPositive(d, b) ==
    IF b = <<0, 0, 0, 1000>>
    THEN GNotPositiveAtCap(d)
    ELSE /\ NumLe(NumOfInt(Len(d)), b)
         /\ \A j \in 1..Len(d) : NumLe(One, d[j])

\* C26: brentq is called on [1, b] only with 2 <= b <= 1e12, g(1) > 0 and
\* g(b) <= 0; in solve_recurrence b is the smallest power of two with
\* g(b) <= 0; a call that finds no such b returns PENALTY without calling
\* brentq.
C26_VerifiedBracket ==
    /\ pc = "solve_brentq" =>
          /\ NumLe(NumOfInt(2), bb) /\ NumLe(bb, <<0, 0, 0, 1000>>)
          /\ NumLt(Zero, GAtOne(CoefsOf(srec)))
          /\ IsPowerOfTwo(bb)
          /\ GNotPositiveAt(CoefsOf(srec), DeltasOf(srec), ExponentOf(bb))
          /\ \A j \in 1..(ExponentOf(bb) - 1) :
                ~GNotPositiveAt(CoefsOf(srec), DeltasOf(srec), j)
    /\ pc = "brentq" =>
          /\ NumLe(NumOfInt(2), bb) /\ NumLe(bb, <<0, 0, 0, 1000>>)
          /\ Len(fdeltas) >= 2 /\ \A j \in 1..Len(fdeltas) : NumLt(Zero, fdeltas[j])
          /\ FindGNotPositive(fdeltas, bb)
    /\ (pc = "returned" /\ result # NoSolve /\ SolveEarly(srec) = SolveGoesOn) =>
          IF \E k \in PowersBelowCap : GNotPositiveAt(CoefsOf(srec), DeltasOf(srec), k)
          THEN result.kind = "root" /\ TimesPow2(One, result.k) = bb
          ELSE result.kind = "value" /\ result.val = PENALTY
    /\ (pc = "returned" /\ found1 # NoFind /\ found1.bracketed
          /\ ~FindGNotPositive(fdeltas, bb)) =>
          /\ bb = <<0, 0, 0, 1000>>
          /\ found1.kind = "value" /\ found1.val = PENALTY

\* brentq is about to be called on [1, 2^30] for T(n) = 1e9 * T(n-1).
C26_Witness ==
    /\ pc = "solve_brentq"
    /\ bb = TimesPow2(One, 30)
    /\ CoefsOf(srec) = << <<0, 0, 0, 1>> >>

\* ---- C27 ----
\* find_root has its bracket: past the early returns, with 2 <= b <= 1e12
\* and g(b) <= 0.
HasBracket ==
    /\ NumLe(NumOfInt(2), bb) /\ NumLe(bb, <<0, 0, 0, 1000>>)
    /\ FindGNotPositive(fdeltas, bb)

NoFeasibleRoot(o) == o.kind = "inf" \/ (o.kind = "value" /\ o.val = PENALTY)

\* The float kept is finite, at least 1 and below PENALTY.
WarmStart(e) ==
    /\ NumLe(One, e.lo) /\ NumLe(e.lo, e.hi)
    /\ NumLt(e.hi, PENALTY) \/ (e.hi = PENALTY /\ e.open)

\* Every entry of root_cache is a warm start under the key of a rule.
C28_Entries ==
    /\ DOMAIN root_cache \subseteq { CacheKey(r) : r \in RuleRecords }
    /\ \A k \in DOMAIN root_cache : WarmStart(root_cache[k])

\* A call of _rule_value changes at most the entry of its own rule, to the
\* float it returns; without a feasible root it returns PENALTY and changes
\* nothing.
C28_Call ==
    /\ \A k \in DOMAIN root_cache :
          /\ k \in DOMAIN root_cache'
          /\ k # CacheKey(called') => root_cache'[k] = root_cache[k]
    /\ DOMAIN root_cache' \subseteq DOMAIN root_cache \cup {CacheKey(called')}
    /\ root_cache' # root_cache =>
          /\ ~NoFeasibleRoot(solved')
          /\ returned' = solved'
          /\ root_cache'[CacheKey(called')] = EntryOf(returned')
    /\ NoFeasibleRoot(solved') =>
          /\ returned'.kind = "value" /\ returned'.val = PENALTY
          /\ root_cache' = root_cache
    /\ (solved'.kind = "value" /\ solved'.val = One) =>
          root_cache'[CacheKey(called')] = CacheEntry(One, One, FALSE)

\* C28: after any sequence of _rule_value calls every entry of root_cache is
\* a finite float v with 1 <= v < PENALTY under the key (situation_id,
\* rule_id) of the rule whose latest feasible solve gave v; a solve that is
\* infeasible or divergent returns PENALTY and leaves root_cache as it was.
C28_WarmStartCache == [](C28_Entries = TRUE) /\ [][C28_Call]_vars

\* An infeasible solve for a rule whose key has an entry: the entry stays.
C28_Witness ==
    /\ pc = "valued"
    /\ solved.kind = "value" /\ solved.val = PENALTY
    /\ CacheKey(called) \in DOMAIN root_cache

\* ---- C29 ----
\* The outcome class of what solve_recurrence gave and of what find_root
\* gave: exactly 1.0, the infeasible sentinel, or a root.
SolveClass(o) ==
    IF o.kind = "root" THEN "root"
    ELSE IF o.kind = "value" /\ o.val = One THEN "one"
    ELSE IF o.kind = "value" /\ o.val = PENALTY THEN "infeasible"
    ELSE o.kind

FindClass(o) ==
    IF o.kind = "root" THEN "root"
    ELSE IF o.kind = "value" /\ o.val = One THEN "one"
    ELSE IF o.kind = "value" /\ o.val = PENALTY THEN "infeasible"
    ELSE o.kind

\* Both are roots of the same equation, each within the tolerance of its
\* root-finder, and their bounds leave room for a difference of 1e-6.
SameRoot(o, f) ==
    /\ o.deltas = fdeltas /\ \A j \in 1..Len(o.coefs) : o.coefs[j] = One
    /\ f.near /\ f.path = "brent"
    /\ ~Apart([lo |-> RootLo(o), hi |-> RootHi(o)], f)

Agree ==
    /\ SolveClass(result) = FindClass(found1)
    /\ SolveClass(result) = "root" => SameRoot(result, found1)

RootBelowPenalty(r) ==
    \E k \in PowersBelowCap :
        /\ NumLt(TimesPow2(One, k), PENALTY)
        /\ GNotPositiveAt(CoefsOf(r), DeltasOf(r), k)

C30_Reporting ==
    (pc = "exited" /\ argv.json) =>
        /\ Len(stdout) = 1
        /\ ~stdout[1].ok <=> status # ExitSuccess
        /\ stdout[1].ok =>
              \/ "divergent" \in stdout[1].keys /\ stdout[1].divergent
              \/ /\ {"divergent", "root", "asymptotics"} \subseteq stdout[1].keys
                 /\ ~stdout[1].divergent
                 /\ ~stdout[1].root.inf /\ NumLt(stdout[1].root.val, PENALTY)
                 /\ stdout[1].asymptotics = asym.out
        /\ asym # NoAsym => ~aroot.inf /\ NumLt(aroot.val, PENALTY)

============================================================================
